---- MODULE Spec2Model ----
(***************************************************************************)
(* The hipBLAS client test routines testing_tpmv, testing_tpmv_strided_    *)
(* batched, testing_tbsv_strided_batched, testing_syr_batched,             *)
(* testing_dgmm_batched, testing_rot_strided_batched_ex and                *)
(* testing_set_get_matrix_async as one state machine.                      *)
(*                                                                         *)
(* A test case is a single thread of control.  Its descriptor `arg` is     *)
(* immutable, so the statements one test case executes when nothing fails  *)
(* are a function of (routine, arg): each routine is translated into the   *)
(* sequence of its statements, every loop unrolled by its trip count and   *)
(* every branch resolved by the descriptor.  One action per kind of        *)
(* statement executes the statement under the program counter; calls that  *)
(* return a status fail nondeterministically.  trace[i] is the outcome of  *)
(* statement prog[i].                                                      *)
(***************************************************************************)
EXTENDS Integers, Sequences, FiniteSets, TLC

VARIABLES routine, arg, prog, pc, status, bufs, pending, mode, locals,
          logged, seeded, trace

vars == <<routine, arg, prog, pc, status, bufs, pending, mode, locals,
          logged, seeded, trace>>

(***************************************************************************)
(* Bounds of the descriptor fields.                                        *)
(***************************************************************************)
MaxDim == 1
MaxBatch == 1
MaxIters == 1
MaxScale == 3

\* arg.stride_scale is a double; it is modelled as the rational
\* stride_scale / ScaleDen, so that 1 .. MaxScale are 0.5, 1.0, 1.5.
ScaleDen == 2

Dims == -1 .. MaxDim
LeadDims == 0 .. MaxDim
Incs == {-1, 0, 1}
Batches == -1 .. MaxBatch
IterCounts == 0 .. MaxIters
Scales == 1 .. MaxScale

Routines == {"tpmv", "tpmv_strided_batched", "tbsv_strided_batched",
             "syr_batched", "dgmm_batched", "rot_strided_batched_ex",
             "set_get_matrix_async"}

(***************************************************************************)
(* The fields of Arguments a test routine reads.  A field a routine does   *)
(* not read is 0 / FALSE / "-".                                            *)
(***************************************************************************)
NoArg == [N |-> 0, M |-> 0, K |-> 0, rows |-> 0, cols |-> 0,
          incx |-> 0, incy |-> 0, lda |-> 0, ldb |-> 0, ldc |-> 0,
          batch_count |-> 0, stride_scale |-> ScaleDen,
          side |-> "-", diag |-> "-", uplo |-> "-", transA |-> "-",
          unit_check |-> FALSE, norm_check |-> FALSE, timing |-> FALSE,
          cold_iters |-> 0, iters |-> 0]

\* unit_check, norm_check, timing, cold_iters, iters: read by every routine.
\* The iteration counts are read only inside if(arg.timing).
Switches ==
    { [unit_check |-> u, norm_check |-> n, timing |-> t,
       cold_iters |-> c, iters |-> i] :
         u \in BOOLEAN, n \in BOOLEAN, t \in BOOLEAN,
         c \in IterCounts, i \in IterCounts }

WithSwitches(a, s) ==
    [a EXCEPT !.unit_check = s.unit_check, !.norm_check = s.norm_check,
              !.timing = s.timing, !.cold_iters = s.cold_iters,
              !.iters = s.iters]

Shapes(r) ==
    CASE r = "tpmv" ->
           { [NoArg EXCEPT !.N = n, !.incx = ix] : n \in Dims, ix \in Incs }
      [] r = "tpmv_strided_batched" ->
           { [NoArg EXCEPT !.N = n, !.incx = ix, !.batch_count = bc,
                           !.stride_scale = sc] :
               n \in Dims, ix \in Incs, bc \in Batches, sc \in Scales }
      [] r = "tbsv_strided_batched" ->
           { [NoArg EXCEPT !.N = n, !.K = k, !.lda = ld, !.incx = ix,
                           !.batch_count = bc, !.diag = d,
                           !.stride_scale = sc] :
               n \in Dims, k \in Dims, ld \in LeadDims, ix \in Incs,
               bc \in Batches, d \in {"U", "N"}, sc \in Scales }
      [] r = "syr_batched" ->
           { [NoArg EXCEPT !.N = n, !.incx = ix, !.lda = ld,
                           !.batch_count = bc] :
               n \in Dims, ix \in Incs, ld \in LeadDims, bc \in Batches }
      [] r = "dgmm_batched" ->
           { [NoArg EXCEPT !.M = m, !.N = n, !.lda = ld, !.incx = ix,
                           !.ldc = lc, !.batch_count = bc, !.side = s] :
               m \in Dims, n \in Dims, ld \in LeadDims, ix \in Incs,
               lc \in LeadDims, bc \in Batches, s \in {"L", "R"} }
      [] r = "rot_strided_batched_ex" ->
           { [NoArg EXCEPT !.N = n, !.incx = ix, !.incy = iy,
                           !.batch_count = bc, !.stride_scale = sc] :
               n \in Dims, ix \in Incs, iy \in Incs, bc \in Batches,
               sc \in Scales }
      [] r = "set_get_matrix_async" ->
           { [NoArg EXCEPT !.rows = m, !.cols = n, !.lda = la, !.ldb = lb,
                           !.ldc = lc] :
               m \in Dims, n \in Dims, la \in LeadDims, lb \in LeadDims,
               lc \in LeadDims }

(***************************************************************************)
(* Statements.  ln is the source line of the statement; chk is the macro   *)
(* wrapped around a status ("assert": ASSERT_HIP_SUCCESS or                *)
(* ASSERT_HIPBLAS_SUCCESS, "expect": EXPECT_HIPBLAS_STATUS2, "none": the   *)
(* status is dropped or there is none); dst / src are the buffers (or      *)
(* local variables) written / read; from is the operand a written buffer's *)
(* content derives from ("" when updated in place); tag is the scalar      *)
(* residency of a device call, the pointer mode, the operand name of an    *)
(* initialisation, the helper's name or the clock read; nul says that the  *)
(* operand pointers are nullptr; exp is the expected status; b the batch;  *)
(* str gives the stride the statement uses for each strided operand; tol   *)
(* is the tolerance of a unit check in units of the machine epsilon (0: no *)
(* tolerance is passed, the comparison is exact).                          *)
(***************************************************************************)
St(op, ln, chk, dst, src, from, tag) ==
    [op |-> op, ln |-> ln, chk |-> chk, dst |-> dst, src |-> src,
     from |-> from, tag |-> tag, nul |-> FALSE, exp |-> "-", b |-> 0,
     str |-> <<>>, tol |-> 0]

\* Statement st with the strides s, a record operand |-> stride.
Strided(st, s) == [st EXCEPT !.str = s]

(***************************************************************************)
(* hipblasStride values.  A stride is the conversion to a 64-bit integer   *)
(* of a double product: ok says that the conversion is defined, v is the   *)
(* value when it is.  A product that involves size_t(N) with N < 0 is of   *)
(* the order of 2^64 and its conversion is undefined.                      *)
(***************************************************************************)
Stride(v) == [v |-> v, ok |-> TRUE]
UndefinedStride == [v |-> 0, ok |-> FALSE]

\* (hipblasStride)(n * stride_scale): truncation toward zero.
Scaled(n, a) ==
    IF n >= 0 THEN (n * a.stride_scale) \div ScaleDen
              ELSE -(((-n) * a.stride_scale) \div ScaleDen)

abs(i) == IF i >= 0 THEN i ELSE -i

\* (hipblasStride)(n * stride_scale) where n is a size_t product whose
\* int factors have the mathematical product n: a negative n wraps.
ScaledSizeT(n, a) == IF n < 0 THEN UndefinedStride ELSE Stride(Scaled(n, a))

HAlloc(ln, names) == St("halloc", ln, "none", names, {}, "", "")
DAlloc(ln, names) == St("dalloc", ln, "none", names, {}, "", "")
MemCheck(ln, d) == St("memcheck", ln, "assert", {}, {d}, "", "")
Decl(ln, names, v) == St("decl", ln, "none", names, {}, "", v)
InitBuf(ln, h, operand) == St("init", ln, "none", {h}, {}, "", operand)
HCopy(ln, d, s) == St("hcopy", ln, "none", {d}, {s}, s, "")
H2D(ln, d, h) == St("h2d", ln, "assert", {d}, {h}, h, "")
D2H(ln, h, d) == St("d2h", ln, "assert", {h}, {d}, d, "")
SetMode(ln, m) == St("setmode", ln, "assert", {}, {}, "", m)
GetStream(ln, chk) == St("getstream", ln, chk, {}, {}, "", "")
Sync(ln) == St("sync", ln, "assert", {}, {}, "", "")
Srand(ln) == St("srand", ln, "none", {}, {}, "", "")
Call(ln, written, operands, from, scalars) ==
    [St("call", ln, "assert", written, operands, from, scalars)
        EXCEPT !.exp = "SUCCESS"]
PreCall(ln, chk, expected) ==
    [St("call", ln, chk, {}, {}, "", "none")
        EXCEPT !.nul = TRUE, !.exp = expected]
SetAsync(ln, d, h) ==
    [St("setasync", ln, "assert", {d}, {h}, h, "") EXCEPT !.exp = "SUCCESS"]
GetAsync(ln, h, d) ==
    [St("getasync", ln, "assert", {h}, {d}, d, "") EXCEPT !.exp = "SUCCESS"]
Ref(ln, written, read, from, b) ==
    [St("ref", ln, "none", written, read, from, "") EXCEPT !.b = b]
Prep(ln, fn, written, read, from, b) ==
    [St("prep", ln, "none", written, read, from, fn) EXCEPT !.b = b]
Unit(ln, gold, res, b) ==
    [St("unit", ln, "none", {}, {gold, res}, gold, res) EXCEPT !.b = b]
Norm(ln, gold, res, err, b) ==
    [St("norm", ln, "none", {err}, {gold, res}, gold, res) EXCEPT !.b = b]
NormAdd(ln, gold, res, err) ==
    St("normadd", ln, "none", {err}, {gold, res}, gold, res)
Accum(ln, sum, err, b) ==
    [St("accum", ln, "none", {sum}, {err}, "", "") EXCEPT !.b = b]
Clock(ln, which) == St("clock", ln, "none", {"gpu_time_used"}, {}, "", which)
Log(ln, values) == St("log", ln, "none", {}, values, "", "")
Return(ln) == St("return", ln, "none", {}, {}, "", "")

DeviceFnOps == {"call", "setasync", "getasync"}

\* The sequence s(lo) \o s(lo+1) \o ... \o s(hi), for a loop body s(_).
RECURSIVE Unroll(_, _, _)
Unroll(s(_), lo, hi) ==
    IF lo > hi THEN <<>> ELSE s(lo) \o Unroll(s, lo + 1, hi)

When(c, stmts) == IF c THEN stmts ELSE <<>>

(***************************************************************************)
(* The timing loop every routine ends with:                                *)
(*   int runs = arg.cold_iters + arg.iters;                                *)
(*   for(int iter = 0; iter < runs; iter++)                                *)
(*   { if(iter == arg.cold_iters) gpu_time_used = get_time_us_sync(stream);*)
(*     <device call(s)> }                                                  *)
(*   gpu_time_used = get_time_us_sync(stream) - gpu_time_used;             *)
(***************************************************************************)
timing_loop(a, ln, body) ==
    LET runs == a.cold_iters + a.iters
        OneIter(iter) ==
            When(iter = a.cold_iters, << Clock(ln, "start") >>) \o body
    IN  Unroll(OneIter, 0, runs - 1)

(***************************************************************************)
(* testing_tpmv                                                            *)
(***************************************************************************)
\* Mutant: the zero increment is not tested.
tpmv_invalid_size_no_incx(a) == a.N < 0

tpmv_invalid_size(a) == a.N < 0 \/ a.incx = 0

tpmv_precheck(a) == tpmv_invalid_size(a) \/ a.N = 0

\* EXPECT_HIPBLAS_STATUS2(actual, (invalid_size ? HIPBLAS_STATUS_INVALID_VALUE
\*                                              : HIPBLAS_STATUS_SUCCESS))
\* Mutant: a zero size is looked at first.
tpmv_quick_return_zero_first(a) ==
    << PreCall(64, "expect", IF a.N = 0 THEN "SUCCESS" ELSE "INVALID_VALUE"),
       Return(67) >>

tpmv_quick_return(a) ==
    << PreCall(64, "expect", IF tpmv_invalid_size(a) THEN "INVALID_VALUE"
                                                     ELSE "SUCCESS"),
       Return(67) >>

tpmv_setup(a) ==
    << HAlloc(71, {"hA", "hx", "hres"}),
       DAlloc(75, {"dA", "dx"}),
       Decl(78, {"gpu_time_used", "hipblas_error"}, "unset"),
       InitBuf(81, "hA", "A"),
       InitBuf(82, "hx", "x"),
       HCopy(85, "hres", "hx"),
       H2D(88, "dA", "hA"),
       H2D(89, "dx", "hx") >>

tpmv_checked(a) ==
    << Call(96, {"dx"}, {"dA", "dx"}, "", "none"),
       D2H(99, "hres", "dx"),
       Ref(104, {"hx"}, {"hA", "hx"}, "", 0) >>
    \o When(a.unit_check, << Unit(110, "hx", "hres", 0) >>)
    \o When(a.norm_check, << Norm(114, "hx", "hres", "hipblas_error", 0) >>)

tpmv_timing(a) ==
    << GetStream(121, "assert") >>
    \o timing_loop(a, 127, << Call(129, {"dx"}, {"dA", "dx"}, "", "none") >>)
    \o << Clock(131, "end"),
          Log(133, {"gpu_time_used", "hipblas_error"}) >>

\* if(arg.unit_check || arg.norm_check) { ... }  if(arg.timing) { ... }
\* Mutant: the checked block does not depend on the switches.
testing_tpmv_ungated(a) ==
    IF tpmv_precheck(a)
    THEN tpmv_quick_return(a)
    ELSE tpmv_setup(a)
         \o tpmv_checked(a)
         \o When(a.timing, tpmv_timing(a))
         \o << Return(140) >>

testing_tpmv(a) ==
    IF tpmv_precheck(a)
    THEN tpmv_quick_return(a)
    ELSE tpmv_setup(a)
         \o When(a.unit_check \/ a.norm_check, tpmv_checked(a))
         \o When(a.timing, tpmv_timing(a))
         \o << Return(140) >>

(***************************************************************************)
(* testing_tpmv_strided_batched                                            *)
(***************************************************************************)
\* dim_A = size_t(N) * (N + 1) / 2; stride_A = dim_A * stride_scale.
tpmv_sb_stride_A(a) == ScaledSizeT((a.N * (a.N + 1)) \div 2, a)

\* stride_x = size_t(N) * abs_incx * stride_scale.
tpmv_sb_stride_x(a) == ScaledSizeT(a.N * abs(a.incx), a)

tpmv_sb_strides(a) == [A |-> tpmv_sb_stride_A(a), x |-> tpmv_sb_stride_x(a)]

tpmv_sb_invalid_size(a) == a.N < 0 \/ a.incx = 0 \/ a.batch_count < 0

tpmv_sb_precheck(a) ==
    tpmv_sb_invalid_size(a) \/ a.N = 0 \/ a.batch_count = 0

tpmv_sb_quick_return(a) ==
    << Strided(PreCall(71, "expect",
                       IF tpmv_sb_invalid_size(a) THEN "INVALID_VALUE"
                                                  ELSE "SUCCESS"),
               tpmv_sb_strides(a)),
       Return(75) >>

tpmv_sb_setup(a) ==
    << HAlloc(79, {"hA", "hx", "hres"}),
       DAlloc(83, {"dA", "dx"}),
       Decl(86, {"gpu_time_used", "hipblas_error"}, "unset"),
       Strided(InitBuf(89, "hA", "A"), [A |-> tpmv_sb_stride_A(a)]),
       Strided(InitBuf(91, "hx", "x"), [x |-> tpmv_sb_stride_x(a)]),
       HCopy(93, "hres", "hx"),
       H2D(96, "dA", "hA"),
       H2D(97, "dx", "hx") >>

tpmv_sb_reference(a) ==
    LET OneBatch(b) == << Strided(Ref(115, {"hx"}, {"hA", "hx"}, "", b),
                                  tpmv_sb_strides(a)) >>
    IN  Unroll(OneBatch, 0, a.batch_count - 1)

\* Mutant: the reference loop runs after the comparisons.
tpmv_sb_checked_late_reference(a) ==
    << Strided(Call(104, {"dx"}, {"dA", "dx"}, "", "none"),
               tpmv_sb_strides(a)),
       D2H(108, "hres", "dx") >>
    \o When(a.unit_check,
            << Strided(Unit(123, "hx", "hres", 0),
                       [x |-> tpmv_sb_stride_x(a)]) >>)
    \o When(a.norm_check,
            << Strided(Norm(127, "hx", "hres", "hipblas_error", 0),
                       [x |-> tpmv_sb_stride_x(a)]) >>)
    \o tpmv_sb_reference(a)

tpmv_sb_checked(a) ==
    << Strided(Call(104, {"dx"}, {"dA", "dx"}, "", "none"),
               tpmv_sb_strides(a)),
       D2H(108, "hres", "dx") >>
    \o tpmv_sb_reference(a)
    \o When(a.unit_check,
            << Strided(Unit(123, "hx", "hres", 0),
                       [x |-> tpmv_sb_stride_x(a)]) >>)
    \o When(a.norm_check,
            << Strided(Norm(127, "hx", "hres", "hipblas_error", 0),
                       [x |-> tpmv_sb_stride_x(a)]) >>)

tpmv_sb_timing(a) ==
    << GetStream(135, "assert") >>
    \o timing_loop(a, 141,
          << Strided(Call(143, {"dx"}, {"dA", "dx"}, "", "none"),
                     tpmv_sb_strides(a)) >>)
    \o << Clock(146, "end"),
          Log(148, {"gpu_time_used", "hipblas_error"}) >>

testing_tpmv_strided_batched(a) ==
    IF tpmv_sb_precheck(a)
    THEN tpmv_sb_quick_return(a)
    ELSE tpmv_sb_setup(a)
         \o When(a.unit_check \/ a.norm_check, tpmv_sb_checked(a))
         \o When(a.timing, tpmv_sb_timing(a))
         \o << Return(155) >>

(***************************************************************************)
(* testing_tbsv_strided_batched                                            *)
(***************************************************************************)
\* strideA = size_t(N) * N: the dense host matrices hA and AAT.
tbsv_sb_strideA(a) == Stride(a.N * a.N)

\* strideAB = size_t(N) * lda * stride_scale: the banded matrix.
tbsv_sb_strideAB(a) == ScaledSizeT(a.N * a.lda, a)

\* stridex = size_t(abs_incx) * N * stride_scale.
tbsv_sb_stridex(a) == ScaledSizeT(abs(a.incx) * a.N, a)

\* The strides of a device call that passes strideAB and stridex.
tbsv_sb_strides(a) == [A |-> tbsv_sb_strideAB(a), x |-> tbsv_sb_stridex(a)]

tbsv_sb_invalid_size(a) ==
    a.N < 0 \/ a.K < 0 \/ a.lda < a.K + 1 \/ a.incx = 0 \/ a.batch_count < 0

tbsv_sb_precheck(a) ==
    tbsv_sb_invalid_size(a) \/ a.N = 0 \/ a.batch_count = 0

tbsv_sb_quick_return(a) ==
    << Strided(PreCall(81, "expect",
                       IF tbsv_sb_invalid_size(a) THEN "INVALID_VALUE"
                                                  ELSE "SUCCESS"),
               [A |-> tbsv_sb_strideA(a), x |-> tbsv_sb_stridex(a)]),
       Return(96) >>

\* for(b...) { banded_matrix_setup; prepare_triangular_solve;
\*             make_unit_diagonal (unit diagonal only); regular_to_banded;
\*             cblas_tbmv }
tbsv_sb_prepare(a) ==
    LET dense == [dense |-> tbsv_sb_strideA(a)]
        OneBatch(b) ==
          << Strided(Prep(124, "banded_matrix_setup", {"hA"}, {"hA"}, "", b),
                     dense),
             Strided(Prep(126, "prepare_triangular_solve", {"hA", "AAT"},
                          {"hA"}, "", b), dense) >>
          \o When(a.diag = "U",
                  << Strided(Prep(129, "make_unit_diagonal", {"hA"}, {"hA"},
                                  "", b), dense) >>)
          \o << Strided(Prep(132, "regular_to_banded", {"hAB"}, {"hA"},
                             "hA", b),
                        [dense |-> tbsv_sb_strideA(a),
                         A |-> tbsv_sb_strideAB(a)]),
                Strided(Prep(135, "cblas_tbmv", {"hb"}, {"hAB", "hb"}, "", b),
                        tbsv_sb_strides(a)) >>
    IN  Unroll(OneBatch, 0, a.batch_count - 1)

\* Allocation, initialisation, hb = hx, the preparation loop, hx_or_b_1 =
\* hb, then the copies to the device.
\* Mutant: the copies to the device are made before the preparation loop.
tbsv_sb_setup_copy_first(a) ==
    << HAlloc(100, {"hA", "hAB", "AAT", "hb", "hx", "hx_or_b_1"}),
       DAlloc(107, {"dAB", "dx_or_b"}),
       Decl(110, {"gpu_time_used", "hipblas_error"}, "unset"),
       Decl(110, {"cumulative_hipblas_error"}, "zero"),
       Strided(InitBuf(113, "hA", "A"), [dense |-> tbsv_sb_strideA(a)]),
       Strided(InitBuf(114, "hx", "x"), [x |-> tbsv_sb_stridex(a)]),
       HCopy(116, "hb", "hx"),
       HCopy(138, "hx_or_b_1", "hb"),
       H2D(141, "dAB", "hAB"),
       H2D(142, "dx_or_b", "hx_or_b_1") >>
    \o tbsv_sb_prepare(a)

tbsv_sb_setup(a) ==
    << HAlloc(100, {"hA", "hAB", "AAT", "hb", "hx", "hx_or_b_1"}),
       DAlloc(107, {"dAB", "dx_or_b"}),
       Decl(110, {"gpu_time_used", "hipblas_error"}, "unset"),
       Decl(110, {"cumulative_hipblas_error"}, "zero"),
       Strided(InitBuf(113, "hA", "A"), [dense |-> tbsv_sb_strideA(a)]),
       Strided(InitBuf(114, "hx", "x"), [x |-> tbsv_sb_stridex(a)]),
       HCopy(116, "hb", "hx") >>
    \o tbsv_sb_prepare(a)
    \o << HCopy(138, "hx_or_b_1", "hb"),
          H2D(141, "dAB", "hAB"),
          H2D(142, "dx_or_b", "hx_or_b_1") >>

\* double tolerance = std::numeric_limits<real_t<T>>::epsilon() * 40 * N,
\* in units of epsilon.  Mutant: no tolerance, the error must be zero.
tbsv_sb_tolerance_exact(a) == 0

tbsv_sb_tolerance(a) == 40 * a.N

\* for(b...) { hipblas_error = |vector_norm_1(hx + b*stridex, ...)|;
\*             if(unit_check) unit_check_error(hipblas_error, tolerance);
\*             cumulative_hipblas_error += hipblas_error; }
\* Mutant: the error of a batch is not added to the cumulative error.
tbsv_sb_errors_no_accumulate(a) ==
    LET OneBatch(b) ==
          << Strided(Norm(172, "hx", "hx_or_b_1", "hipblas_error", b),
                     [x |-> tbsv_sb_stridex(a)]) >>
          \o When(a.unit_check,
                  << [Unit(177, "hx", "hx_or_b_1", b)
                         EXCEPT !.tol = tbsv_sb_tolerance(a)] >>)
    IN  Unroll(OneBatch, 0, a.batch_count - 1)

tbsv_sb_errors(a) ==
    LET OneBatch(b) ==
          << Strided(Norm(172, "hx", "hx_or_b_1", "hipblas_error", b),
                     [x |-> tbsv_sb_stridex(a)]) >>
          \o When(a.unit_check,
                  << [Unit(177, "hx", "hx_or_b_1", b)
                         EXCEPT !.tol = tbsv_sb_tolerance(a)] >>)
          \o << Accum(180, "cumulative_hipblas_error", "hipblas_error", b) >>
    IN  Unroll(OneBatch, 0, a.batch_count - 1)

tbsv_sb_checked(a) ==
    << Strided(Call(150, {"dx_or_b"}, {"dAB", "dx_or_b"}, "", "none"),
               tbsv_sb_strides(a)),
       D2H(165, "hx_or_b_1", "dx_or_b") >>
    \o tbsv_sb_errors(a)

tbsv_sb_timing(a) ==
    << GetStream(187, "assert") >>
    \o timing_loop(a, 193,
          << Strided(Call(195, {"dx_or_b"}, {"dAB", "dx_or_b"}, "", "none"),
                     tbsv_sb_strides(a)) >>)
    \o << Clock(209, "end"),
          Log(211, {"gpu_time_used", "cumulative_hipblas_error"}) >>

testing_tbsv_strided_batched(a) ==
    IF tbsv_sb_precheck(a)
    THEN tbsv_sb_quick_return(a)
    ELSE tbsv_sb_setup(a)
         \o When(a.unit_check \/ a.norm_check, tbsv_sb_checked(a))
         \o When(a.timing, tbsv_sb_timing(a))
         \o << Return(218) >>

(***************************************************************************)
(* testing_syr_batched                                                     *)
(***************************************************************************)
syr_b_invalid_size(a) ==
    a.N < 0 \/ a.incx = 0 \/ a.lda < a.N \/ a.lda < 1 \/ a.batch_count < 0

syr_b_precheck(a) == syr_b_invalid_size(a) \/ a.N = 0 \/ a.batch_count = 0

syr_b_quick_return(a) ==
    << PreCall(65, "expect", IF syr_b_invalid_size(a) THEN "INVALID_VALUE"
                                                      ELSE "SUCCESS"),
       Return(69) >>

\* h_alpha (line 56) is a host scalar, not a buffer.
syr_b_setup(a) ==
    << Decl(72, {"gpu_time_used", "hipblas_error_host",
                 "hipblas_error_device"}, "unset"),
       HAlloc(75, {"hA", "hA_cpu", "hA_host", "hA_device", "hx"}),
       DAlloc(81, {"dA", "dx", "d_alpha"}),
       MemCheck(85, "dA"),
       MemCheck(86, "dx"),
       InitBuf(88, "hA", "A"),
       InitBuf(89, "hx", "x"),
       HCopy(91, "hA_cpu", "hA"),
       H2D(93, "dA", "hA"),
       H2D(94, "dx", "hx"),
       H2D(95, "d_alpha", "h_alpha") >>

\* Mutant: the device-mode result is copied over the host-mode result.
syr_b_device_calls_one_result(a) ==
    << SetMode(102, "host"),
       Call(103, {"dA"}, {"dx", "dA"}, "", "host"),
       D2H(113, "hA_host", "dA"),
       H2D(114, "dA", "hA"),
       SetMode(116, "device"),
       Call(117, {"dA"}, {"dx", "dA", "d_alpha"}, "", "device"),
       D2H(127, "hA_host", "dA") >>

syr_b_device_calls(a) ==
    << SetMode(102, "host"),
       Call(103, {"dA"}, {"dx", "dA"}, "", "host"),
       D2H(113, "hA_host", "dA"),
       H2D(114, "dA", "hA"),
       SetMode(116, "device"),
       Call(117, {"dA"}, {"dx", "dA", "d_alpha"}, "", "device"),
       D2H(127, "hA_device", "dA") >>

syr_b_reference(a) ==
    LET OneBatch(b) == << Ref(134, {"hA_cpu"}, {"hx", "hA_cpu"}, "", b) >>
    IN  Unroll(OneBatch, 0, a.batch_count - 1)

\* if(arg.unit_check) { unit_check_general x 2 }
\* if(arg.norm_check) { norm_check_general x 2 }
\* Mutant: the norm checks are made before the unit checks.
syr_b_compare_norm_first(a) ==
    When(a.norm_check,
         << Norm(146, "hA_cpu", "hA_host", "hipblas_error_host", 0),
            Norm(148, "hA_cpu", "hA_device", "hipblas_error_device", 0) >>)
    \o When(a.unit_check,
         << Unit(141, "hA_cpu", "hA_host", 0),
            Unit(142, "hA_cpu", "hA_device", 0) >>)

syr_b_compare(a) ==
    When(a.unit_check,
         << Unit(141, "hA_cpu", "hA_host", 0),
            Unit(142, "hA_cpu", "hA_device", 0) >>)
    \o When(a.norm_check,
         << Norm(146, "hA_cpu", "hA_host", "hipblas_error_host", 0),
            Norm(148, "hA_cpu", "hA_device", "hipblas_error_device", 0) >>)

syr_b_checked(a) ==
    syr_b_device_calls(a) \o syr_b_reference(a) \o syr_b_compare(a)

\* dA.transfer_from(hA); hipblasGetStream; hipblasSetPointerMode(DEVICE);
\* the loop with d_alpha; the end clock; log_args.
\* Mutant: the pointer mode is not set before the loop.
syr_b_timing_mode_unset(a) ==
    << H2D(155, "dA", "hA"),
       GetStream(157, "assert") >>
    \o timing_loop(a, 164,
          << Call(166, {"dA"}, {"dx", "dA", "d_alpha"}, "", "device") >>)
    \o << Clock(176, "end"),
          Log(178, {"gpu_time_used", "hipblas_error_host",
                    "hipblas_error_device"}) >>

syr_b_timing(a) ==
    << H2D(155, "dA", "hA"),
       GetStream(157, "assert"),
       SetMode(158, "device") >>
    \o timing_loop(a, 164,
          << Call(166, {"dA"}, {"dx", "dA", "d_alpha"}, "", "device") >>)
    \o << Clock(176, "end"),
          Log(178, {"gpu_time_used", "hipblas_error_host",
                    "hipblas_error_device"}) >>

\* Mutant: the return after the pre-check call is missing.
testing_syr_batched_no_return(a) ==
    When(syr_b_precheck(a), << syr_b_quick_return(a)[1] >>)
    \o syr_b_setup(a)
    \o When(a.unit_check \/ a.norm_check, syr_b_checked(a))
    \o When(a.timing, syr_b_timing(a))
    \o << Return(186) >>

testing_syr_batched(a) ==
    IF syr_b_precheck(a)
    THEN syr_b_quick_return(a)
    ELSE syr_b_setup(a)
         \o When(a.unit_check \/ a.norm_check, syr_b_checked(a))
         \o When(a.timing, syr_b_timing(a))
         \o << Return(186) >>

(***************************************************************************)
(* testing_dgmm_batched                                                    *)
(***************************************************************************)
dgmm_b_invalid_size(a) ==
    a.M < 0 \/ a.N < 0 \/ a.ldc < a.M \/ a.lda < a.M \/ a.batch_count < 0

\* Mutant: M = 0 does not take the quick return.
dgmm_b_precheck_no_M(a) ==
    dgmm_b_invalid_size(a) \/ a.N = 0 \/ a.batch_count = 0

dgmm_b_precheck(a) ==
    dgmm_b_invalid_size(a) \/ a.N = 0 \/ a.M = 0 \/ a.batch_count = 0

dgmm_b_quick_return(a) ==
    << PreCall(68, "expect", IF dgmm_b_invalid_size(a) THEN "INVALID_VALUE"
                                                       ELSE "SUCCESS"),
       Return(72) >>

dgmm_b_setup(a) ==
    << HAlloc(76, {"hA", "hA_copy", "hx", "hx_copy", "hC", "hC_1",
                   "hC_gold"}),
       DAlloc(84, {"dA", "dx", "dC"}),
       MemCheck(88, "dA"),
       MemCheck(89, "dx"),
       MemCheck(90, "dC"),
       Decl(92, {"gpu_time_used", "hipblas_error"}, "unset"),
       InitBuf(95, "hA", "A"),
       InitBuf(96, "hx", "x"),
       InitBuf(97, "hC", "C"),
       HCopy(99, "hA_copy", "hA"),
       HCopy(100, "hx_copy", "hx"),
       HCopy(101, "hC_1", "hC"),
       HCopy(102, "hC_gold", "hC_gold"),
       H2D(104, "dA", "hA"),
       H2D(105, "dx", "hx"),
       H2D(106, "dC", "hC") >>

dgmm_b_reference(a) ==
    LET OneBatch(b) ==
          << Ref(140, {"hC_gold"}, {"hA_copy", "hx_copy"}, "hA_copy", b) >>
    IN  Unroll(OneBatch, 0, a.batch_count - 1)

dgmm_b_checked(a) ==
    << Call(113, {"dC"}, {"dA", "dx", "dC"}, "dA", "none"),
       D2H(124, "hC_1", "dC") >>
    \o dgmm_b_reference(a)
    \o When(a.unit_check, << Unit(156, "hC_gold", "hC_1", 0) >>)
    \o When(a.norm_check,
            << Norm(161, "hC_gold", "hC_1", "hipblas_error", 0) >>)

\* Mutant: the record is written in every iteration of the loop.
dgmm_b_timing_log_in_loop(a) ==
    << GetStream(168, "assert") >>
    \o timing_loop(a, 174,
          << Call(176, {"dC"}, {"dA", "dx", "dC"}, "dA", "none"),
             Log(190, {"gpu_time_used", "hipblas_error"}) >>)
    \o << Clock(188, "end") >>

dgmm_b_timing(a) ==
    << GetStream(168, "assert") >>
    \o timing_loop(a, 174,
          << Call(176, {"dC"}, {"dA", "dx", "dC"}, "dA", "none") >>)
    \o << Clock(188, "end"),
          Log(190, {"gpu_time_used", "hipblas_error"}) >>

testing_dgmm_batched(a) ==
    IF dgmm_b_precheck(a)
    THEN dgmm_b_quick_return(a)
    ELSE dgmm_b_setup(a)
         \o When(a.unit_check \/ a.norm_check, dgmm_b_checked(a))
         \o When(a.timing, dgmm_b_timing(a))
         \o << Return(197) >>

(***************************************************************************)
(* testing_rot_strided_batched_ex                                          *)
(***************************************************************************)
\* stridex = N * abs_incx * stride_scale (int arithmetic, then double).
rot_sb_ex_stridex(a) == Stride(Scaled(a.N * abs(a.incx), a))

\* stridey = N * abs_incy * stride_scale.
rot_sb_ex_stridey(a) == Stride(Scaled(a.N * abs(a.incy), a))

rot_sb_ex_strides(a) ==
    [x |-> rot_sb_ex_stridex(a), y |-> rot_sb_ex_stridey(a)]

rot_sb_ex_precheck(a) == a.N <= 0 \/ a.batch_count <= 0

rot_sb_ex_quick_return(a) ==
    << Strided(PreCall(82, "assert", "SUCCESS"), rot_sb_ex_strides(a)),
       Return(98) >>

rot_sb_ex_setup(a) ==
    << Decl(101, {"gpu_time_used", "hipblas_error_host",
                  "hipblas_error_device"}, "unset"),
       DAlloc(103, {"dx", "dy", "dc", "ds"}),
       HAlloc(109, {"hx_host", "hy_host", "hx_device", "hy_device",
                    "hx_cpu", "hy_cpu", "hc", "hs"}),
       Strided(InitBuf(118, "hx_host", "x"), [x |-> rot_sb_ex_stridex(a)]),
       Strided(InitBuf(120, "hy_host", "y"), [y |-> rot_sb_ex_stridey(a)]),
       InitBuf(122, "hc", "c"),
       InitBuf(123, "hs", "s"),
       HCopy(125, "hx_device", "hx_host"),
       HCopy(125, "hx_cpu", "hx_device"),
       HCopy(126, "hy_device", "hy_host"),
       HCopy(126, "hy_cpu", "hy_device"),
       H2D(128, "dx", "hx_host"),
       H2D(129, "dy", "hy_host"),
       H2D(130, "dc", "hc"),
       H2D(131, "ds", "hs") >>

\* The host-mode call, the copies of its results to hx_host / hy_host, the
\* copies of hx_device / hy_device to the device, the device-mode call, the
\* copies of its results to hx_device / hy_device.
\* Mutant: dx and dy are not restored between the two calls.
rot_sb_ex_device_calls_no_restore(a) ==
    << SetMode(135, "host"),
       Strided(Call(136, {"dx", "dy"}, {"dx", "dy", "hc", "hs"}, "", "host"),
               rot_sb_ex_strides(a)),
       D2H(152, "hx_host", "dx"),
       D2H(153, "hy_host", "dy"),
       SetMode(157, "device"),
       Strided(Call(158, {"dx", "dy"}, {"dx", "dy", "dc", "ds"}, "",
                    "device"), rot_sb_ex_strides(a)),
       D2H(174, "hx_device", "dx"),
       D2H(175, "hy_device", "dy") >>

rot_sb_ex_device_calls(a) ==
    << SetMode(135, "host"),
       Strided(Call(136, {"dx", "dy"}, {"dx", "dy", "hc", "hs"}, "", "host"),
               rot_sb_ex_strides(a)),
       D2H(152, "hx_host", "dx"),
       D2H(153, "hy_host", "dy"),
       H2D(154, "dx", "hx_device"),
       H2D(155, "dy", "hy_device"),
       SetMode(157, "device"),
       Strided(Call(158, {"dx", "dy"}, {"dx", "dy", "dc", "ds"}, "",
                    "device"), rot_sb_ex_strides(a)),
       D2H(174, "hx_device", "dx"),
       D2H(175, "hy_device", "dy") >>

rot_sb_ex_reference(a) ==
    LET OneBatch(b) ==
          << Strided(Ref(179, {"hx_cpu", "hy_cpu"},
                         {"hx_cpu", "hy_cpu", "hc", "hs"}, "", b),
                     rot_sb_ex_strides(a)) >>
    IN  Unroll(OneBatch, 0, a.batch_count - 1)

\* Mutant: a failed unit check leaves the test case.
rot_sb_ex_compare_fatal(a) ==
    When(a.unit_check,
         << Strided([Unit(185, "hx_cpu", "hx_host", 0) EXCEPT !.chk = "assert"],
                    [x |-> rot_sb_ex_stridex(a)]),
            Strided([Unit(186, "hy_cpu", "hy_host", 0) EXCEPT !.chk = "assert"],
                    [y |-> rot_sb_ex_stridey(a)]),
            Strided([Unit(187, "hx_cpu", "hx_device", 0) EXCEPT !.chk = "assert"],
                    [x |-> rot_sb_ex_stridex(a)]),
            Strided([Unit(188, "hy_cpu", "hy_device", 0) EXCEPT !.chk = "assert"],
                    [y |-> rot_sb_ex_stridey(a)]) >>)
    \o When(a.norm_check,
         << Strided(Norm(193, "hx_cpu", "hx_host", "hipblas_error_host", 0),
                    [x |-> rot_sb_ex_stridex(a)]),
            Strided(NormAdd(195, "hy_cpu", "hy_host", "hipblas_error_host"),
                    [y |-> rot_sb_ex_stridey(a)]),
            Strided(Norm(197, "hx_cpu", "hx_device", "hipblas_error_device", 0),
                    [x |-> rot_sb_ex_stridex(a)]),
            Strided(NormAdd(199, "hy_cpu", "hy_device", "hipblas_error_device"),
                    [y |-> rot_sb_ex_stridey(a)]) >>)

rot_sb_ex_compare(a) ==
    When(a.unit_check,
         << Strided(Unit(185, "hx_cpu", "hx_host", 0),
                    [x |-> rot_sb_ex_stridex(a)]),
            Strided(Unit(186, "hy_cpu", "hy_host", 0),
                    [y |-> rot_sb_ex_stridey(a)]),
            Strided(Unit(187, "hx_cpu", "hx_device", 0),
                    [x |-> rot_sb_ex_stridex(a)]),
            Strided(Unit(188, "hy_cpu", "hy_device", 0),
                    [y |-> rot_sb_ex_stridey(a)]) >>)
    \o When(a.norm_check,
         << Strided(Norm(193, "hx_cpu", "hx_host", "hipblas_error_host", 0),
                    [x |-> rot_sb_ex_stridex(a)]),
            Strided(NormAdd(195, "hy_cpu", "hy_host", "hipblas_error_host"),
                    [y |-> rot_sb_ex_stridey(a)]),
            Strided(Norm(197, "hx_cpu", "hx_device", "hipblas_error_device", 0),
                    [x |-> rot_sb_ex_stridex(a)]),
            Strided(NormAdd(199, "hy_cpu", "hy_device", "hipblas_error_device"),
                    [y |-> rot_sb_ex_stridey(a)]) >>)

rot_sb_ex_checked(a) ==
    rot_sb_ex_device_calls(a) \o rot_sb_ex_reference(a)
    \o rot_sb_ex_compare(a)

rot_sb_ex_timing(a) ==
    << GetStream(207, "assert"),
       SetMode(208, "device") >>
    \o timing_loop(a, 214,
          << Strided(Call(216, {"dx", "dy"}, {"dx", "dy", "dc", "ds"}, "",
                          "device"), rot_sb_ex_strides(a)) >>)
    \o << Clock(232, "end"),
          Log(234, {"gpu_time_used", "hipblas_error_host",
                    "hipblas_error_device"}) >>

testing_rot_strided_batched_ex(a) ==
    IF rot_sb_ex_precheck(a)
    THEN rot_sb_ex_quick_return(a)
    ELSE rot_sb_ex_setup(a)
         \o When(a.unit_check \/ a.norm_check, rot_sb_ex_checked(a))
         \o When(a.timing, rot_sb_ex_timing(a))
         \o << Return(242) >>

(***************************************************************************)
(* testing_set_get_matrix_async                                            *)
(***************************************************************************)
set_get_precheck(a) ==
    a.rows < 0 \/ a.cols < 0 \/ a.lda <= 0 \/ a.ldb <= 0 \/ a.ldc <= 0

set_get_quick_return(a) == << Return(57) >>

\* hipblasGetStream on line 72 is called without a status macro.
set_get_setup(a) ==
    << HAlloc(61, {"ha", "hb", "hb_ref", "hc"}),
       DAlloc(66, {"dc"}),
       Decl(68, {"hipblas_error", "gpu_time_used"}, "zero"),
       GetStream(72, "none"),
       Srand(75),
       InitBuf(76, "ha", "a"),
       InitBuf(77, "hb", "b"),
       HCopy(78, "hb_ref", "hb"),
       InitBuf(81, "hc", "hc100"),
       H2D(83, "dc", "hc"),
       InitBuf(86, "hc", "hc99") >>

\* Mutant: the stream is not synchronised after the get.
set_get_transfer_no_sync(a) ==
    << SetAsync(93, "dc", "ha"),
       GetAsync(95, "hb", "dc") >>

set_get_transfer(a) ==
    << SetAsync(93, "dc", "ha"),
       GetAsync(95, "hb", "dc"),
       Sync(97) >>

\* unit_check_general(rows, cols, ldb, hb, hb_ref): hb is the device result.
set_get_checked(a) ==
    << Ref(110, {"hb_ref"}, {"ha"}, "ha", 0) >>
    \o When(a.unit_check, << Unit(118, "hb_ref", "hb", 0) >>)
    \o When(a.norm_check,
            << Norm(122, "hb_ref", "hb", "hipblas_error", 0) >>)

set_get_timing(a) ==
    << GetStream(129, "assert") >>
    \o timing_loop(a, 135,
          << SetAsync(137, "dc", "ha"), GetAsync(139, "hb", "dc") >>)
    \o << Clock(142, "end"),
          Log(144, {"gpu_time_used", "hipblas_error"}) >>

testing_set_get_matrix_async(a) ==
    IF set_get_precheck(a)
    THEN set_get_quick_return(a)
    ELSE set_get_setup(a)
         \o set_get_transfer(a)
         \o When(a.unit_check \/ a.norm_check, set_get_checked(a))
         \o When(a.timing, set_get_timing(a))
         \o << Return(151) >>

(***************************************************************************)
(* Dispatch on the routine under test.                                     *)
(***************************************************************************)
Program(r, a) ==
    CASE r = "tpmv" -> testing_tpmv(a)
      [] r = "tpmv_strided_batched" -> testing_tpmv_strided_batched(a)
      [] r = "tbsv_strided_batched" -> testing_tbsv_strided_batched(a)
      [] r = "syr_batched" -> testing_syr_batched(a)
      [] r = "dgmm_batched" -> testing_dgmm_batched(a)
      [] r = "rot_strided_batched_ex" -> testing_rot_strided_batched_ex(a)
      [] r = "set_get_matrix_async" -> testing_set_get_matrix_async(a)

PreCheck(r, a) ==
    CASE r = "tpmv" -> tpmv_precheck(a)
      [] r = "tpmv_strided_batched" -> tpmv_sb_precheck(a)
      [] r = "tbsv_strided_batched" -> tbsv_sb_precheck(a)
      [] r = "syr_batched" -> syr_b_precheck(a)
      [] r = "dgmm_batched" -> dgmm_b_precheck(a)
      [] r = "rot_strided_batched_ex" -> rot_sb_ex_precheck(a)
      [] r = "set_get_matrix_async" -> set_get_precheck(a)

\* The line of if(arg.timing) in each routine: the statements below it
\* belong to the timing block.
TimingLine(r) ==
    CASE r = "tpmv" -> 118
      [] r = "tpmv_strided_batched" -> 132
      [] r = "tbsv_strided_batched" -> 184
      [] r = "syr_batched" -> 153
      [] r = "dgmm_batched" -> 165
      [] r = "rot_strided_batched_ex" -> 204
      [] r = "set_get_matrix_async" -> 126

(***************************************************************************)
(* The descriptors explored.  The switches and iteration counts are read   *)
(* only after the pre-check, so a descriptor that takes the pre-check path *)
(* is explored with all switches off and with all switches on; the         *)
(* iteration counts are read only under arg.timing.                        *)
(***************************************************************************)
AllOff == [unit_check |-> FALSE, norm_check |-> FALSE, timing |-> FALSE,
           cold_iters |-> 0, iters |-> 0]
AllOn == [unit_check |-> TRUE, norm_check |-> TRUE, timing |-> TRUE,
          cold_iters |-> MaxIters, iters |-> MaxIters]

SwitchesRead ==
    { s \in Switches : ~s.timing => (s.cold_iters = 0 /\ s.iters = 0) }

\* stride_scale changes the strides of the statements and nothing else of
\* the control flow: a scale other than 1.0 is explored with all switches
\* off and with all switches on.
UnitScale(a) == a.stride_scale = ScaleDen

Args(r) ==
    { WithSwitches(a, s) :
        a \in { x \in Shapes(r) : ~PreCheck(r, x) /\ UnitScale(x) },
        s \in SwitchesRead }
    \cup
    { WithSwitches(a, s) :
        a \in { x \in Shapes(r) : PreCheck(r, x) \/ ~UnitScale(x) },
        s \in {AllOff, AllOn} }

(***************************************************************************)
(* State of one test case.                                                 *)
(*   bufs     the host_vector / device_vector objects constructed so far   *)
(*            and what each holds: the operand it was initialised from,    *)
(*            how many device calls and which batches of the reference     *)
(*            computation have updated it, the scalar residency of the     *)
(*            last device call, the preparation helpers applied;           *)
(*   pending  buffers written by device work that no blocking copy or      *)
(*            stream synchronisation has waited for yet;                   *)
(*   mode     the handle's pointer mode;                                   *)
(*   locals   gpu_time_used and the error variables: how each got its      *)
(*            value (tag) and, for an error variable, the norms that have  *)
(*            been added into it (terms);                                  *)
(*   logged   the number of log_args records written;                      *)
(*   seeded   srand was called;                                            *)
(*   prog     the statements of this test case, Program(routine, arg);     *)
(*   pc       the index of the next statement;                             *)
(*   trace    the outcome of each statement executed so far.               *)
(***************************************************************************)
Empty == [x \in {} |-> 0]

Uninit == [op |-> "?", dev |-> 0, ref |-> {}, sc |-> "none", hist |-> {}]
Data(o) == [op |-> o, dev |-> 0, ref |-> {}, sc |-> "none", hist |-> {}]

\* The content of a buffer, or of a host scalar such as h_alpha.
Value(n) == IF n \in DOMAIN bufs THEN bufs[n] ELSE Data(n)

Init ==
    /\ routine \in Routines
    /\ arg \in Args(routine)
    /\ prog = Program(routine, arg)
    /\ pc = 1
    /\ status = "running"
    /\ bufs = Empty
    /\ pending = {}
    /\ mode = "host"
    /\ locals = Empty
    /\ logged = 0
    /\ seeded = FALSE
    /\ trace = <<>>

At(op) == status = "running" /\ pc <= Len(prog) /\ prog[pc].op = op

Statuses == {"SUCCESS", "INVALID_VALUE"}

\* ASSERT_HIP_SUCCESS / ASSERT_HIPBLAS_SUCCESS leave the test case on a
\* failure; EXPECT_HIPBLAS_STATUS2 records a failure and goes on.
Fatal(st, ok) == ~ok /\ st.chk = "assert"

\* A host statement reads a buffer whose producing device work is not
\* known to have finished.
Hazard(st) == st.src \cap pending # {}

Event(st, ok, actual) ==
    [ok |-> ok, actual |-> actual, hazard |-> Hazard(st),
     mode |-> mode, err |-> 0,
     vals |-> IF st.op = "log" THEN [n \in st.src |-> locals[n]] ELSE Empty]

\* Control after statement st with outcome ok.
Advance(st, ok, actual) ==
    /\ pc' = pc + 1
    /\ status' = IF Fatal(st, ok) THEN "aborted" ELSE status
    /\ trace' = Append(trace, Event(st, ok, actual))
    /\ UNCHANGED <<routine, arg, prog>>

\* host_vector / host_batch_vector constructors
HostAlloc ==
    /\ At("halloc")
    /\ bufs' = [n \in prog[pc].dst |-> Uninit] @@ bufs
    /\ Advance(prog[pc], TRUE, "-")
    /\ UNCHANGED <<pending, mode, locals, logged, seeded>>

\* device_vector / device_batch_vector constructors
DeviceAlloc ==
    /\ At("dalloc")
    /\ bufs' = [n \in prog[pc].dst |-> Uninit] @@ bufs
    /\ Advance(prog[pc], TRUE, "-")
    /\ UNCHANGED <<pending, mode, locals, logged, seeded>>

\* ASSERT_HIP_SUCCESS(d.memcheck())
MemCheckStep ==
    /\ At("memcheck")
    /\ \E ok \in BOOLEAN : Advance(prog[pc], ok, "-")
    /\ UNCHANGED <<bufs, pending, mode, locals, logged, seeded>>

\* A local variable of the test routine.
Local(tag, terms) == [tag |-> tag, terms |-> terms]

\* The error that comparison st computes: the norm of the difference of
\* its two buffers (of batch st.b, where the statement is inside a loop).
Term(st) == [ln |-> st.ln, gold |-> st.from, res |-> st.tag, b |-> st.b]

\* double gpu_time_used, hipblas_error ...;
Declare ==
    /\ At("decl")
    /\ locals' = [n \in prog[pc].dst |-> Local(prog[pc].tag, <<>>)] @@ locals
    /\ Advance(prog[pc], TRUE, "-")
    /\ UNCHANGED <<bufs, pending, mode, logged, seeded>>

\* hipblas_init_vector / hipblas_init_matrix / hipblas_init / fill loop
Initialise ==
    /\ At("init")
    /\ bufs' = [n \in prog[pc].dst |-> Data(prog[pc].tag)] @@ bufs
    /\ Advance(prog[pc], TRUE, "-")
    /\ UNCHANGED <<pending, mode, locals, logged, seeded>>

Seed ==
    /\ At("srand")
    /\ seeded' = TRUE
    /\ Advance(prog[pc], TRUE, "-")
    /\ UNCHANGED <<bufs, pending, mode, locals, logged>>

\* host-to-host assignment: h2 = h1, h2.copy_from(h1)
HostCopy ==
    /\ At("hcopy")
    /\ bufs' = [n \in prog[pc].dst |-> Value(prog[pc].from)] @@ bufs
    /\ Advance(prog[pc], TRUE, "-")
    /\ UNCHANGED <<pending, mode, locals, logged, seeded>>

\* A blocking copy waits for the device work issued before it.
BlockingCopy(st) ==
    \E ok \in BOOLEAN :
       /\ bufs' = IF ok THEN [n \in st.dst |-> Value(st.from)] @@ bufs
                        ELSE bufs
       /\ pending' = IF ok THEN {} ELSE pending
       /\ Advance(st, ok, "-")
       /\ UNCHANGED <<mode, locals, logged, seeded>>

\* hipMemcpy(..., hipMemcpyHostToDevice), d.transfer_from(h)
CopyToDevice == At("h2d") /\ BlockingCopy(prog[pc])

\* hipMemcpy(..., hipMemcpyDeviceToHost), h.transfer_from(d)
CopyToHost == At("d2h") /\ BlockingCopy(prog[pc])

SetPointerMode ==
    /\ At("setmode")
    /\ \E ok \in BOOLEAN :
          /\ mode' = IF ok THEN prog[pc].tag ELSE mode
          /\ Advance(prog[pc], ok, "-")
    /\ UNCHANGED <<bufs, pending, locals, logged, seeded>>

GetStreamStep ==
    /\ At("getstream")
    /\ \E ok \in BOOLEAN : Advance(prog[pc], ok, "-")
    /\ UNCHANGED <<bufs, pending, mode, locals, logged, seeded>>

\* The device function.  It returns a status; on success every written
\* operand has been updated once more, asynchronously.
Updated(st, n) ==
    [(IF st.from = "" THEN Value(n) ELSE Value(st.from))
        EXCEPT !.dev = @ + 1, !.sc = st.tag]

DeviceCall ==
    /\ At("call")
    /\ LET st == prog[pc] IN
       \E actual \in Statuses :
          LET ok == (actual = st.exp) IN
          /\ bufs' = IF actual = "SUCCESS" /\ ~st.nul
                     THEN [n \in st.dst |-> Updated(st, n)] @@ bufs
                     ELSE bufs
          /\ pending' = IF actual = "SUCCESS" /\ ~st.nul
                        THEN pending \cup st.dst ELSE pending
          /\ Advance(st, ok, actual)
    /\ UNCHANGED <<mode, locals, logged, seeded>>

\* hipblasSetMatrixAsync / hipblasGetMatrixAsync: a copy queued on the
\* stream; the destination is complete only after a synchronisation.
AsyncCopy(st) ==
    \E actual \in Statuses :
       /\ bufs' = IF actual = "SUCCESS"
                  THEN [n \in st.dst |-> Value(st.from)] @@ bufs ELSE bufs
       /\ pending' = IF actual = "SUCCESS" THEN pending \cup st.dst
                                           ELSE pending
       /\ Advance(st, actual = st.exp, actual)
       /\ UNCHANGED <<mode, locals, logged, seeded>>

SetMatrixAsync == At("setasync") /\ AsyncCopy(prog[pc])

GetMatrixAsync == At("getasync") /\ AsyncCopy(prog[pc])

\* hipStreamSynchronize(stream)
StreamSynchronize ==
    /\ At("sync")
    /\ \E ok \in BOOLEAN :
          /\ pending' = IF ok THEN {} ELSE pending
          /\ Advance(prog[pc], ok, "-")
    /\ UNCHANGED <<bufs, mode, locals, logged, seeded>>

\* The reference computation on host buffers (cblas_*, or the loops of
\* dgmm_batched and set_get_matrix_async), for batch st.b.
RefUpdated(st, n) ==
    IF st.from = ""
    THEN [Value(n) EXCEPT !.ref = @ \cup {st.b}]
    ELSE [Value(st.from) EXCEPT
            !.ref = (IF Value(n).op = Value(st.from).op THEN Value(n).ref
                                                        ELSE {})
                    \cup {st.b}]

Reference ==
    /\ At("ref")
    /\ bufs' = [n \in prog[pc].dst |-> RefUpdated(prog[pc], n)] @@ bufs
    /\ Advance(prog[pc], TRUE, "-")
    /\ UNCHANGED <<pending, mode, locals, logged, seeded>>

\* The data preparation helpers of tbsv_strided_batched.
Prepared(st, n) ==
    [(IF st.from = "" THEN Value(n) ELSE Value(st.from))
        EXCEPT !.hist = @ \cup {st.tag}]

Prepare ==
    /\ At("prep")
    /\ bufs' = [n \in prog[pc].dst |-> Prepared(prog[pc], n)] @@ bufs
    /\ Advance(prog[pc], TRUE, "-")
    /\ UNCHANGED <<pending, mode, locals, logged, seeded>>

\* The errors a comparison with tolerance t is explored with, in units of
\* the machine epsilon: none, the tolerance, just beyond the tolerance.
ErrorLevels(t) == {0, t, t + 1}

\* unit_check_general / unit_check_error: the comparison passes when the
\* error found is within the tolerance, or reports a mismatch, and returns
\* to the test routine in both cases.
UnitCheck ==
    /\ At("unit")
    /\ \E e \in ErrorLevels(prog[pc].tol) :
          LET pass == e <= prog[pc].tol
          IN  /\ pc' = pc + 1
              /\ status' = IF Fatal(prog[pc], pass) THEN "aborted" ELSE status
              /\ trace' = Append(trace, [Event(prog[pc], pass, "-")
                                            EXCEPT !.err = e])
              /\ UNCHANGED <<routine, arg, prog>>
    /\ UNCHANGED <<bufs, pending, mode, locals, logged, seeded>>

\* err = norm_check_general(...) / |vector_norm_1(...)|
NormCheck ==
    /\ At("norm")
    /\ locals' = [n \in prog[pc].dst |->
                    Local("assigned", << Term(prog[pc]) >>)] @@ locals
    /\ Advance(prog[pc], TRUE, "-")
    /\ UNCHANGED <<bufs, pending, mode, logged, seeded>>

\* err += norm_check_general(...)
NormCheckAdd ==
    /\ At("normadd")
    /\ locals' = [n \in prog[pc].dst |->
                    Local(IF locals[n].tag \in {"assigned", "zero"}
                          THEN "assigned" ELSE "indeterminate",
                          Append(locals[n].terms, Term(prog[pc])))] @@ locals
    /\ Advance(prog[pc], TRUE, "-")
    /\ UNCHANGED <<bufs, pending, mode, logged, seeded>>

\* cumulative_hipblas_error += hipblas_error
Accumulate ==
    /\ At("accum")
    /\ locals' = [n \in prog[pc].dst |->
                    LET e == CHOOSE x \in prog[pc].src : TRUE
                    IN  Local(IF /\ locals[n].tag \in {"assigned", "zero"}
                                 /\ locals[e].tag = "assigned"
                              THEN "assigned" ELSE "indeterminate",
                              locals[n].terms \o locals[e].terms)] @@ locals
    /\ Advance(prog[pc], TRUE, "-")
    /\ UNCHANGED <<bufs, pending, mode, logged, seeded>>

\* get_time_us_sync(stream): synchronises the stream, then reads the clock.
\*   start:  gpu_time_used = get_time_us_sync(stream)
\*   end:    gpu_time_used = get_time_us_sync(stream) - gpu_time_used
Elapsed(old) ==
    CASE old = "start" -> "elapsed"
      [] old = "zero" -> "end_minus_zero"
      [] OTHER -> "indeterminate"

ClockRead ==
    /\ At("clock")
    /\ pending' = {}
    /\ locals' = [locals EXCEPT !["gpu_time_used"].tag =
                    IF prog[pc].tag = "start" THEN "start" ELSE Elapsed(@)]
    /\ Advance(prog[pc], TRUE, "-")
    /\ UNCHANGED <<bufs, mode, logged, seeded>>

\* ArgumentModel::log_args(std::cout, arg, gpu_time_used, ..., errors)
LogRecord ==
    /\ At("log")
    /\ logged' = logged + 1
    /\ Advance(prog[pc], TRUE, "-")
    /\ UNCHANGED <<bufs, pending, mode, locals, seeded>>

\* return, or the end of the function body
ReturnStep ==
    /\ At("return")
    /\ status' = "done"
    /\ pc' = pc + 1
    /\ trace' = Append(trace, Event(prog[pc], TRUE, "-"))
    /\ UNCHANGED <<routine, arg, prog, bufs, pending, mode, locals, logged, seeded>>

Next ==
    \/ HostAlloc
    \/ DeviceAlloc
    \/ MemCheckStep
    \/ Declare
    \/ Initialise
    \/ Seed
    \/ HostCopy
    \/ CopyToDevice
    \/ CopyToHost
    \/ SetPointerMode
    \/ GetStreamStep
    \/ DeviceCall
    \/ SetMatrixAsync
    \/ GetMatrixAsync
    \/ StreamSynchronize
    \/ Reference
    \/ Prepare
    \/ UnitCheck
    \/ NormCheck
    \/ NormCheckAdd
    \/ Accumulate
    \/ ClockRead
    \/ LogRecord
    \/ ReturnStep

Spec == Init /\ [][Next]_vars

TypeOK ==
    /\ routine \in Routines
    /\ status \in {"running", "done", "aborted"}
    /\ prog = Program(routine, arg)
    /\ pc \in 1 .. (Len(prog) + 1)
    /\ Len(trace) = pc - 1
    /\ mode \in {"host", "device"}
    /\ logged \in Nat

(***************************************************************************)
(* Vocabulary of the properties.                                           *)
(***************************************************************************)
Executed == 1 .. Len(trace)
Finished == status # "running"
Completed == status = "done"

\* The statements executed so far that invoke a device function.
DeviceCalls == { i \in Executed : prog[i].op \in DeviceFnOps }

\* A call with nullptr for every operand buffer.
NullCall(i) == prog[i].op = "call" /\ prog[i].nul

\* The statements that touch a buffer, run the reference computation,
\* compare, time or log.
WorkOps == {"halloc", "dalloc", "memcheck", "init", "hcopy", "h2d", "d2h",
            "setasync", "getasync", "sync", "ref", "prep", "unit", "norm",
            "normadd", "accum", "clock", "log", "getstream", "setmode",
            "srand"}

\* Invalidity of a descriptor as the specification words it: a negative
\* dimension, a zero or negative required leading dimension, a negative
\* batch count, a zero increment.
SpecInvalid(r, a) ==
    CASE r = "tpmv" -> a.N < 0 \/ a.incx = 0
      [] r = "tpmv_strided_batched" ->
           a.N < 0 \/ a.incx = 0 \/ a.batch_count < 0
      [] r = "tbsv_strided_batched" ->
           a.N < 0 \/ a.K < 0 \/ a.lda <= 0 \/ a.incx = 0
           \/ a.batch_count < 0
      [] r = "syr_batched" ->
           a.N < 0 \/ a.lda <= 0 \/ a.incx = 0 \/ a.batch_count < 0
      [] r = "dgmm_batched" ->
           a.M < 0 \/ a.N < 0 \/ a.lda <= 0 \/ a.ldc <= 0 \/ a.incx = 0
           \/ a.batch_count < 0
      [] r = "rot_strided_batched_ex" ->
           a.N < 0 \/ a.incx = 0 \/ a.incy = 0 \/ a.batch_count < 0
      [] r = "set_get_matrix_async" ->
           a.rows < 0 \/ a.cols < 0 \/ a.lda <= 0 \/ a.ldb <= 0
           \/ a.ldc <= 0

\* A zero dimension or a zero batch count.
SpecZeroSize(r, a) ==
    CASE r = "tpmv" -> a.N = 0
      [] r = "dgmm_batched" -> a.N = 0 \/ a.M = 0 \/ a.batch_count = 0
      [] r = "set_get_matrix_async" -> a.rows = 0 \/ a.cols = 0
      [] OTHER -> a.N = 0 \/ a.batch_count = 0

\* Exactly one device call, with null operand buffers, expecting status s.
OneNullCallExpecting(s) ==
    /\ Cardinality(DeviceCalls) = 1
    /\ \A i \in DeviceCalls : NullCall(i) /\ prog[i].exp = s

(***************************************************************************)
(* C1 (as stated).  For every routine, a finished test case whose          *)
(* descriptor is invalid (negative dimension, zero or negative required    *)
(* leading dimension, negative batch count, zero increment) has invoked    *)
(* the device function exactly once, with null buffers, expecting          *)
(* HIPBLAS_STATUS_INVALID_VALUE.                                           *)
(***************************************************************************)
C1_AsStated ==
    (Completed /\ SpecInvalid(routine, arg))
       => OneNullCallExpecting("INVALID_VALUE")

\* The descriptors each routine's own test rejects.  dgmm_batched tests
\* neither incx nor the sign of lda / ldc; the other four routines with an
\* invalid_size flag reject what the specification calls invalid (and, for
\* syr_batched and tbsv_strided_batched, a leading dimension that is
\* positive but too small).
C1_Rejected(r, a) ==
    CASE r = "dgmm_batched" ->
           a.M < 0 \/ a.N < 0 \/ a.lda < a.M \/ a.ldc < a.M
           \/ a.batch_count < 0
      [] r = "syr_batched" -> SpecInvalid(r, a) \/ a.lda < a.N
      [] r = "tbsv_strided_batched" -> SpecInvalid(r, a) \/ a.lda < a.K + 1
      [] OTHER -> SpecInvalid(r, a)

(***************************************************************************)
(* C1 (amended).  In syr_batched, dgmm_batched, tpmv, tpmv_strided_batched *)
(* and tbsv_strided_batched a finished test case whose descriptor the      *)
(* routine rejects has invoked the device function exactly once, with null *)
(* buffers, expecting INVALID_VALUE.  rot_strided_batched_ex makes the     *)
(* single null-buffer call exactly when N <= 0 or batch_count <= 0 and     *)
(* expects SUCCESS; set_get_matrix_async returns on an invalid descriptor  *)
(* without invoking any device function.                                   *)
(***************************************************************************)
C1_InvalidDescriptor ==
    Finished =>
      /\ (routine \in {"syr_batched", "dgmm_batched", "tpmv",
                       "tpmv_strided_batched", "tbsv_strided_batched"}
          /\ C1_Rejected(routine, arg))
            => OneNullCallExpecting("INVALID_VALUE")
      /\ (routine = "rot_strided_batched_ex"
          /\ (arg.N <= 0 \/ arg.batch_count <= 0))
            => OneNullCallExpecting("SUCCESS")
      /\ (routine = "set_get_matrix_async" /\ SpecInvalid(routine, arg))
            => DeviceCalls = {}

\* An invalid tbsv_strided_batched descriptor (zero increment, the size
\* itself valid) has been answered with the single null-buffer call.
C1_Witness ==
    /\ Completed
    /\ routine = "tbsv_strided_batched"
    /\ arg.incx = 0 /\ arg.N > 0 /\ arg.batch_count > 0
    /\ OneNullCallExpecting("INVALID_VALUE")

\* Every parameter is valid: none is invalid in the words of the
\* specification, and every leading dimension is large enough for the
\* routine's matrix.
AllValid(r, a) ==
    /\ ~SpecInvalid(r, a)
    /\ r = "syr_batched" => a.lda >= a.N
    /\ r = "tbsv_strided_batched" => a.lda >= a.K + 1
    /\ r = "dgmm_batched" => (a.lda >= a.M /\ a.ldc >= a.M)

(***************************************************************************)
(* C2 (as stated).  For every routine with a pre-check, a completed test   *)
(* case of zero size whose parameters are otherwise valid consists of one  *)
(* device call with null buffers expecting HIPBLAS_STATUS_SUCCESS and the  *)
(* return, and of no further step.                                         *)
(***************************************************************************)
C2_AsStated ==
    (Completed /\ SpecZeroSize(routine, arg) /\ AllValid(routine, arg))
       => (OneNullCallExpecting("SUCCESS") /\ Len(trace) = 2)

(***************************************************************************)
(* C2 (amended).  In every routine whose pre-check tests for a zero size   *)
(* (all but set_get_matrix_async) a test case of zero size whose           *)
(* parameters are otherwise valid invokes the device function exactly once *)
(* with null buffers, expects SUCCESS and returns without a further step.  *)
(* set_get_matrix_async has no quick return: with rows = 0 or cols = 0 it  *)
(* allocates its buffers and runs the set and the get.                     *)
(***************************************************************************)
C2_QuickReturn ==
    (Finished /\ SpecZeroSize(routine, arg) /\ AllValid(routine, arg)) =>
      IF routine = "set_get_matrix_async"
      THEN /\ bufs # Empty
           /\ Completed => (\E i \in DeviceCalls : prog[i].op = "setasync")
      ELSE /\ OneNullCallExpecting("SUCCESS")
           /\ Len(trace) <= 2
           /\ Completed => (Len(trace) = 2 /\ prog[2].op = "return")

\* dgmm_batched with M = 0 and a positive N and batch count has returned
\* after the single null-buffer call.
C2_Witness ==
    /\ Completed
    /\ routine = "dgmm_batched"
    /\ arg.M = 0 /\ arg.N > 0 /\ arg.batch_count > 0
    /\ AllValid(routine, arg)
    /\ OneNullCallExpecting("SUCCESS")
    /\ Len(trace) = 2

(***************************************************************************)
(* C3.  While and after a test case takes the pre-check path, no host or   *)
(* device buffer exists or is initialised, copied or modified, no local    *)
(* is assigned, nothing is logged or seeded, and the statements executed   *)
(* are at most one device call, which has null operand buffers, and the    *)
(* return (set_get_matrix_async makes no call: see C1).                    *)
(***************************************************************************)
C3_PreCheckFrame ==
    PreCheck(routine, arg) =>
      /\ bufs = Empty
      /\ pending = {}
      /\ locals = Empty
      /\ logged = 0
      /\ ~seeded
      /\ \A i \in Executed :
            /\ prog[i].op \notin WorkOps
            /\ NullCall(i) \/ prog[i].op = "return"
      /\ Cardinality(DeviceCalls) <= 1

\* syr_batched with batch_count = 0 and every switch on has made its
\* pre-check call and returned.
C3_Witness ==
    /\ Completed
    /\ routine = "syr_batched"
    /\ PreCheck(routine, arg)
    /\ arg.batch_count = 0
    /\ arg.unit_check /\ arg.norm_check /\ arg.timing
    /\ DeviceCalls # {}

(***************************************************************************)
(* Vocabulary of the normal path.                                          *)
(***************************************************************************)
Last == Len(trace)
Comparisons == {"unit", "norm", "normadd"}
InTiming(i) == prog[i].ln > TimingLine(routine)
DeviceBuffers ==
    UNION { prog[j].dst : j \in { k \in Executed : prog[k].op = "dalloc" } }

\* The batches the reference computation of the routine covers.
RefBatches ==
    CASE routine \in {"tpmv", "set_get_matrix_async"} -> {0}
      [] routine = "tbsv_strided_batched" -> {}
      [] OTHER -> 0 .. (arg.batch_count - 1)

\* Statement i is a successful copy to the device into buffer d.
UploadOf(i, d) ==
    /\ prog[i].op \in {"h2d", "setasync"}
    /\ d \in prog[i].dst
    /\ trace[i].ok

\* Statement j is a successful copy to the host into buffer h of a device
\* buffer that an earlier statement of the device function has written.
CopyBackOf(j, h) ==
    /\ prog[j].op \in {"d2h", "getasync"}
    /\ h \in prog[j].dst
    /\ trace[j].ok
    /\ \E k \in 1 .. (j - 1) :
          /\ prog[k].op \in {"call", "setasync"}
          /\ prog[j].src \subseteq prog[k].dst

(***************************************************************************)
(* C4.  Order of the steps of the normal path, stated for the statement    *)
(* executed last:                                                          *)
(*  - every device operand of a device call was filled by a successful     *)
(*    host-to-device copy executed before the call;                        *)
(*  - the result buffer of a comparison was filled by a copy-back that     *)
(*    follows the device call producing it;                                *)
(*  - no statement of the reference computation follows a comparison, and  *)
(*    the reference buffer of a comparison holds every batch of the        *)
(*    reference computation;                                               *)
(*  - no device buffer ever holds data the reference computation modified. *)
(***************************************************************************)
C4_StepOrder ==
    /\ (Last > 0 /\ prog[Last].op = "call" /\ ~prog[Last].nul) =>
          \A d \in prog[Last].src \cap DeviceBuffers :
             \E j \in 1 .. (Last - 1) : UploadOf(j, d)
    /\ (Last > 0 /\ prog[Last].op \in Comparisons) =>
          /\ \E j \in 1 .. (Last - 1) : CopyBackOf(j, prog[Last].tag)
          /\ \A j \in (Last + 1) .. Len(prog) : prog[j].op # "ref"
          /\ Value(prog[Last].from).ref = RefBatches
    /\ \A d \in DeviceBuffers \cap DOMAIN bufs : bufs[d].ref = {}

\* dgmm_batched with both checks on and at least one batch has run to its
\* end: the unit and the norm comparison were executed.
C4_Witness ==
    /\ Completed
    /\ routine = "dgmm_batched"
    /\ arg.batch_count > 0
    /\ \E i \in Executed : prog[i].op = "unit"
    /\ \E i \in Executed : prog[i].op = "norm"
    /\ bufs["hC_gold"].ref = 0 .. (arg.batch_count - 1)

(***************************************************************************)
(* C5.  In syr_batched and rot_strided_batched_ex a completed checked path *)
(* has invoked the device function exactly twice: first in host pointer    *)
(* mode with host scalars, then in device pointer mode with the device     *)
(* scalars.  The copy-backs after the first and after the second call      *)
(* write disjoint host buffers, each of which still holds the result of    *)
(* exactly one call of its own mode, and two results of the same device    *)
(* buffer are compared against the same reference buffer.                  *)
(***************************************************************************)
DeviceScalars ==
    IF routine = "syr_batched" THEN {"d_alpha"} ELSE {"dc", "ds"}

CheckedCalls == { i \in DeviceCalls : ~InTiming(i) }

CopyBacksIn(lo, hi) ==
    { j \in Executed : lo < j /\ j < hi /\ prog[j].op = "d2h" /\ ~InTiming(j) }

ResultsIn(lo, hi) == UNION { prog[j].dst : j \in CopyBacksIn(lo, hi) }

C5_TwoPointerModes ==
    (/\ Completed
     /\ routine \in {"syr_batched", "rot_strided_batched_ex"}
     /\ ~PreCheck(routine, arg)
     /\ arg.unit_check \/ arg.norm_check) =>
      /\ Cardinality(CheckedCalls) = 2
      /\ \E h \in CheckedCalls, d \in CheckedCalls :
            /\ h < d
            /\ trace[h].mode = "host" /\ prog[h].tag = "host"
            /\ prog[h].src \cap DeviceScalars = {}
            /\ trace[d].mode = "device" /\ prog[d].tag = "device"
            /\ DeviceScalars \subseteq prog[d].src
            /\ ResultsIn(h, d) # {}
            /\ ResultsIn(d, Last) # {}
            /\ ResultsIn(h, d) \cap ResultsIn(d, Last) = {}
            /\ \A n \in ResultsIn(h, d) :
                  bufs[n].sc = "host" /\ bufs[n].dev = 1
            /\ \A n \in ResultsIn(d, Last) :
                  bufs[n].sc = "device" /\ bufs[n].dev = 1
            /\ \A i \in CopyBacksIn(h, d), j \in CopyBacksIn(d, Last) :
                  prog[i].src = prog[j].src =>
                    \A p \in Executed, q \in Executed :
                       (/\ prog[p].op \in Comparisons
                        /\ prog[q].op \in Comparisons
                        /\ prog[p].tag \in prog[i].dst
                        /\ prog[q].tag \in prog[j].dst)
                          => prog[p].from = prog[q].from
            /\ arg.unit_check =>
                  \A n \in ResultsIn(h, d) \cup ResultsIn(d, Last) :
                     \E p \in Executed :
                        prog[p].op = "unit" /\ prog[p].tag = n

\* rot_strided_batched_ex with the unit check on has completed: both calls
\* were made and the four result vectors were compared.
C5_Witness ==
    /\ Completed
    /\ routine = "rot_strided_batched_ex"
    /\ arg.unit_check
    /\ Cardinality(CheckedCalls) = 2
    /\ Cardinality({ p \in Executed : prog[p].op = "unit" }) = 4
    /\ bufs["hx_host"].sc = "host"
    /\ bufs["hx_device"].sc = "device"

(***************************************************************************)
(* C6 (as stated).  In the normal path, a copy, a memory check or a call   *)
(* of the library that returns a failure is the last statement the test    *)
(* case executes, and the test case is aborted.                            *)
(***************************************************************************)
StatusOps == {"memcheck", "h2d", "d2h", "setmode", "getstream", "call",
              "setasync", "getasync", "sync"}

FailedAt(i) == prog[i].op \in StatusOps /\ ~prog[i].nul /\ ~trace[i].ok

C6_AsStated ==
    \A i \in Executed : FailedAt(i) => (i = Last /\ status = "aborted")

(***************************************************************************)
(* C7.  A failed unit check does not end the test case: the test case is   *)
(* still running after it, and a completed test case in which a unit check *)
(* failed has executed every statement of its program -- every comparison  *)
(* of the routine and, under arg.timing, the timing loop and the record.   *)
(***************************************************************************)
CountOf(ops) == Cardinality({ i \in Executed : prog[i].op \in ops })

\* The comparisons of the checked path, counted from the source of each
\* routine: unit checks, norm checks.
UnitChecksOf(r, a) ==
    CASE r = "syr_batched" -> 2
      [] r = "rot_strided_batched_ex" -> 4
      [] r = "tbsv_strided_batched" -> a.batch_count
      [] OTHER -> 1
NormChecksOf(r, a) ==
    CASE r = "syr_batched" -> IF a.norm_check THEN 2 ELSE 0
      [] r = "rot_strided_batched_ex" -> IF a.norm_check THEN 4 ELSE 0
      [] r = "tbsv_strided_batched" -> a.batch_count
      [] OTHER -> IF a.norm_check THEN 1 ELSE 0

UnitFailed == \E i \in Executed : prog[i].op = "unit" /\ ~trace[i].ok

HostReads == {"hcopy", "h2d", "setasync", "ref", "prep", "unit", "norm",
              "normadd"}

C8_Barrier ==
    (Last > 0 /\ prog[Last].op \in HostReads) =>
       /\ ~trace[Last].hazard
       /\ (routine = "set_get_matrix_async" /\ "hb" \in prog[Last].src) =>
             \A g \in { i \in Executed : prog[i].op = "getasync" } :
                \E j \in Executed :
                   /\ g < j /\ j < Last
                   /\ prog[j].op = "sync" /\ trace[j].ok

\* set_get_matrix_async: the unit check has read hb after the set, the get
\* and the synchronisation.
C8_Witness ==
    /\ routine = "set_get_matrix_async"
    /\ Last > 0
    /\ prog[Last].op = "unit"
    /\ "hb" \in prog[Last].src
    /\ ~trace[Last].hazard
    /\ \E g \in Executed : prog[g].op = "getasync" /\ trace[g].ok

(***************************************************************************)
(* C9 (as stated).  A completed test case in timing mode has invoked the   *)
(* device function cold_iters + iters times in the timing block (the set   *)
(* and the get of set_get_matrix_async each that often), has read the      *)
(* start clock once, after exactly the cold_iters warm-up invocations, and *)
(* the end clock once, after the last invocation, and between the two      *)
(* reads only invocations of the device function were executed.            *)
(***************************************************************************)
TimedCalls(ops) == { i \in Executed : InTiming(i) /\ prog[i].op \in ops }
ClockReads(which) ==
    { i \in Executed : prog[i].op = "clock" /\ prog[i].tag = which }
FnOps ==
    IF routine = "set_get_matrix_async" THEN {{"setasync"}, {"getasync"}}
                                        ELSE {{"call"}}

C9_AsStated ==
    (Completed /\ ~PreCheck(routine, arg) /\ arg.timing) =>
       /\ \A ops \in FnOps :
             Cardinality(TimedCalls(ops)) = arg.cold_iters + arg.iters
       /\ Cardinality(ClockReads("start")) = 1
       /\ Cardinality(ClockReads("end")) = 1
       /\ \A s \in ClockReads("start"), e \in ClockReads("end") :
             /\ s < e
             /\ \A ops \in FnOps :
                   Cardinality({ i \in TimedCalls(ops) : i < s })
                      = arg.cold_iters
             /\ \A i \in TimedCalls(DeviceFnOps) : i < e
             /\ \A j \in (s + 1) .. (e - 1) : prog[j].op \in DeviceFnOps

(***************************************************************************)
(* C10 (as stated).  A test case writes at most one record, and a         *)
(* completed test case of the normal path has written exactly one.         *)
(***************************************************************************)
C10_AsStated ==
    /\ logged <= 1
    /\ (Completed /\ ~PreCheck(routine, arg)) => logged = 1

(***************************************************************************)
(* C10 (amended).  A test case writes at most one record.  A completed     *)
(* test case of the normal path has written exactly one record when        *)
(* arg.timing is set, with gpu_time_used and the error variables of the    *)
(* routine, and none when it is not; the pre-check path writes none.       *)
(* Apart from the record, only set_get_matrix_async has an effect outside  *)
(* the test case: it reseeds the random generator with srand(1).           *)
(***************************************************************************)
C10_OneRecord ==
    /\ logged <= 1
    /\ PreCheck(routine, arg) => logged = 0
    /\ (Completed /\ ~PreCheck(routine, arg)) =>
          /\ logged = (IF arg.timing THEN 1 ELSE 0)
          /\ arg.timing =>
                /\ prog[Last - 1].op = "log"
                /\ "gpu_time_used" \in prog[Last - 1].src
                /\ Cardinality(prog[Last - 1].src) >= 2
          /\ seeded <=> routine = "set_get_matrix_async"
    /\ seeded => routine = "set_get_matrix_async"

\* dgmm_batched in timing mode has completed and written its one record.
C10_Witness ==
    /\ Completed
    /\ routine = "dgmm_batched"
    /\ ~PreCheck(routine, arg)
    /\ arg.timing
    /\ arg.iters > 0
    /\ logged = 1

\* The strided operands of the device function of routine r.
StridedOperands(r) ==
    CASE r \in {"tpmv_strided_batched", "tbsv_strided_batched"} -> {"A", "x"}
      [] r = "rot_strided_batched_ex" -> {"x", "y"}
      [] OTHER -> {}

\* The per-batch size of operand o: N * |inc| for a vector, N(N+1)/2 for
\* the packed matrix of tpmv, N * lda for the banded matrix of tbsv.
PerBatchSize(r, a, o) ==
    CASE o = "x" -> a.N * abs(a.incx)
      [] o = "y" -> a.N * abs(a.incy)
      [] o = "A" /\ r = "tpmv_strided_batched" -> (a.N * (a.N + 1)) \div 2
      [] o = "A" /\ r = "tbsv_strided_batched" -> a.N * a.lda

\* Statement i uses, for each strided operand of the device function that
\* it addresses, the per-batch size times stride_scale.
ScaledStrides(i) ==
    \A o \in DOMAIN prog[i].str \cap StridedOperands(routine) :
        prog[i].str[o] = Stride(Scaled(PerBatchSize(routine, arg, o), arg))

(***************************************************************************)
(* C11, as stated.  In the strided-batched routines every invocation of    *)
(* the device function (pre-check, checked and timing call) is passed, for *)
(* each strided operand, the per-batch size times stride_scale, and the    *)
(* reference loop and the comparisons slice the host buffers with the      *)
(* same strides.  Stated for the statement executed last and for N >= 0,  *)
(* where the per-batch sizes are sizes.  The pre-check call of             *)
(* tbsv_strided_batched passes strideA = N * N instead.  (With N < 0 the   *)
(* size_t products of tpmv_strided_batched and tbsv_strided_batched have   *)
(* no defined conversion to a stride either.)                              *)
(***************************************************************************)
C11_AsStated ==
    (/\ Last > 0
     /\ arg.N >= 0
     /\ prog[Last].op \in {"call", "ref", "prep"} \cup Comparisons)
        => ScaledStrides(Last)

(***************************************************************************)
(* C12, as stated.  For every descriptor that passes the pre-check,        *)
(* batch_count >= 0 and the stride of each strided operand is at least the *)
(* per-batch size of that operand, so that the slices b * stride ..        *)
(* b * stride + size - 1 are disjoint and lie inside the stride *          *)
(* batch_count elements allocated.  Stated for the statement executed      *)
(* last.  stride_scale is not validated: with stride_scale < 1 the stride  *)
(* is smaller than the per-batch size.                                     *)
(***************************************************************************)
C12_AsStated ==
    (Last > 0 /\ ~PreCheck(routine, arg)) =>
        /\ arg.batch_count >= 0
        /\ \A o \in DOMAIN prog[Last].str \cap StridedOperands(routine) :
              /\ prog[Last].str[o].ok
              /\ prog[Last].str[o].v >= PerBatchSize(routine, arg, o)

(***************************************************************************)
(* Element-level model of the host data paths.                             *)
(*                                                                         *)
(* The specification DataSpec runs the host statements of the normal path  *)
(* that move or compute data, element by element.  A cell is a pair        *)
(* <<buffer, position>>; bufs[n][p] is the provenance of cell <<n, p>>:    *)
(* the set of cells whose initial content the present content is computed  *)
(* from.  A statement is a record with the field upd, a function from the  *)
(* cells it writes to the cells each is computed from; all reads are of    *)
(* the content before the statement.  A statement that addresses a cell    *)
(* outside its buffer has undefined behaviour: the test case either        *)
(* crashes, or goes on with the writes outside the buffers lost and the    *)
(* reads outside the buffers yielding indeterminate content.               *)
(* DataSpec uses routine, arg, prog, pc, status, bufs and trace (one       *)
(* BOOLEAN per statement executed: it stayed inside the buffers) and       *)
(* leaves the other variables at their initial values.                     *)
(***************************************************************************)
DataDim == 2
DataBatch == 2

DataDims == 1 .. DataDim
DataBatches == 1 .. DataBatch
DataIncs == {-1, 1}

Cells(op, ln, b, upd) == [op |-> op, ln |-> ln, b |-> b, upd |-> upd]

\* The cells of buffer n at the positions ps.
CellsOf(n, ps) == { <<n, p>> : p \in ps }

\* The content read outside a buffer.
Indeterminate == <<"?", 0>>

\* Position of the logical element i of a BLAS vector of n elements with
\* increment inc, relative to the pointer passed.
VecPos(i, n, inc) == IF inc >= 0 THEN i * inc ELSE (n - 1 - i) * (-inc)

\* The slice of batch b of an operand with per-batch size sz and stride
\* st, as the specification defines it: b * st .. b * st + sz - 1.
Slice(b, st, sz) == (b * st) .. (b * st + sz - 1)

(***************************************************************************)
(* testing_tpmv_strided_batched: hres = hx, then the reference loop.       *)
(* cblas_tpmv computes x := op(A) x on the packed triangle: element i of   *)
(* the result is computed from the elements j of x and the stored          *)
(* elements (i, j) of op(A) with j <= i (lower) or j >= i (upper).         *)
(***************************************************************************)
PackedPos(uplo, n, r, c) ==
    IF uplo = "U" THEN r + (c * (c + 1)) \div 2
                  ELSE r + (c * (2 * n - c - 1)) \div 2

tpmv_row(a, i) ==
    LET lower == (a.uplo = "L") <=> (a.transA = "N")
    IN  IF lower THEN 0 .. i ELSE i .. (a.N - 1)

tpmv_reads(a, b, i) ==
    LET sA == tpmv_sb_stride_A(a).v
        sx == tpmv_sb_stride_x(a).v
        Stored(j) == IF a.transA = "N" THEN PackedPos(a.uplo, a.N, i, j)
                                       ELSE PackedPos(a.uplo, a.N, j, i)
    IN  { <<"hx", b * sx + VecPos(j, a.N, a.incx)>> : j \in tpmv_row(a, i) }
        \cup { <<"hA", b * sA + Stored(j)>> : j \in tpmv_row(a, i) }

tpmv_sb_data_reference(a) ==
    LET sx == tpmv_sb_stride_x(a).v
        Written(b) == { <<"hx", b * sx + VecPos(i, a.N, a.incx)>> :
                          i \in 0 .. (a.N - 1) }
        Index(b, c) == CHOOSE i \in 0 .. (a.N - 1) :
                          c[2] = b * sx + VecPos(i, a.N, a.incx)
        OneBatch(b) ==
          << Cells("ref", 115, b,
                   [c \in Written(b) |-> tpmv_reads(a, b, Index(b, c))]) >>
    IN  Unroll(OneBatch, 0, a.batch_count - 1)

tpmv_sb_data_sizes(a) ==
    [hA |-> tpmv_sb_stride_A(a).v * a.batch_count,
     hx |-> tpmv_sb_stride_x(a).v * a.batch_count,
     hres |-> tpmv_sb_stride_x(a).v * a.batch_count]

tpmv_sb_data(a) ==
    << Cells("copy", 93, 0,
             [c \in CellsOf("hres", 0 .. (tpmv_sb_data_sizes(a).hres - 1))
                 |-> {<<"hx", c[2]>>}]) >>
    \o tpmv_sb_data_reference(a)
(***************************************************************************)
(* testing_rot_strided_batched_ex: the host copies of lines 125-126, then  *)
(* the reference loop.  cblas_rot replaces the elements i of x and y by    *)
(* combinations of both with the scalars c and s.                          *)
(***************************************************************************)
rot_sb_ex_data_sizes(a) ==
    LET size_x == rot_sb_ex_stridex(a).v * a.batch_count
        size_y == rot_sb_ex_stridey(a).v * a.batch_count
        sx == IF size_x = 0 THEN 1 ELSE size_x
        sy == IF size_y = 0 THEN 1 ELSE size_y
    IN  [hx_host |-> sx, hx_device |-> sx, hx_cpu |-> sx,
         hy_host |-> sy, hy_device |-> sy, hy_cpu |-> sy,
         hc |-> 1, hs |-> 1]

\* dst = src for two host_vector objects of n elements.
vector_assign(ln, dst, src, n) ==
    Cells("copy", ln, 0,
          [c \in CellsOf(dst, 0 .. (n - 1)) |-> {<<src, c[2]>>}])

rot_sb_ex_data_reference(a) ==
    LET X(b, i) == <<"hx_cpu",
                     b * rot_sb_ex_stridex(a).v + VecPos(i, a.N, a.incx)>>
        Y(b, i) == <<"hy_cpu",
                     b * rot_sb_ex_stridey(a).v + VecPos(i, a.N, a.incy)>>
        Index(b, c) == CHOOSE i \in 0 .. (a.N - 1) : c \in {X(b, i), Y(b, i)}
        Written(b) == { X(b, i) : i \in 0 .. (a.N - 1) }
                      \cup { Y(b, i) : i \in 0 .. (a.N - 1) }
        OneBatch(b) ==
          << Cells("ref", 179, b,
                   [c \in Written(b) |->
                       {X(b, Index(b, c)), Y(b, Index(b, c)),
                        <<"hc", 0>>, <<"hs", 0>>}]) >>
    IN  Unroll(OneBatch, 0, a.batch_count - 1)

rot_sb_ex_data(a) ==
    LET n == rot_sb_ex_data_sizes(a)
    IN  << vector_assign(125, "hx_device", "hx_host", n.hx_host),
           vector_assign(125, "hx_cpu", "hx_device", n.hx_host),
           vector_assign(126, "hy_device", "hy_host", n.hy_host),
           vector_assign(126, "hy_cpu", "hy_device", n.hy_host) >>
        \o rot_sb_ex_data_reference(a)

(***************************************************************************)
(* testing_dgmm_batched: initialisation, the host copies of lines 99-102   *)
(* and the reference loop.  The operands are host_batch_vector objects,    *)
(* one allocation per batch; the buffer of the model holds the batches one *)
(* after the other.                                                        *)
(***************************************************************************)
\* int k = (side == HIPBLAS_SIDE_RIGHT ? N : M)
dgmm_b_k(a) == IF a.side = "R" THEN a.N ELSE a.M

\* The number of elements of one batch of each buffer.
dgmm_b_batch_sizes(a) ==
    LET A_size == a.lda * a.N
        C_size == a.ldc * a.N
        x_size == dgmm_b_k(a) * abs(a.incx)
    IN  [hA |-> A_size, hA_copy |-> A_size, hx |-> x_size,
         hx_copy |-> x_size, hC |-> C_size, hC_1 |-> C_size,
         hC_gold |-> C_size, dA |-> A_size, dx |-> x_size, dC |-> C_size]

dgmm_b_data_sizes(a) ==
    [n \in DOMAIN dgmm_b_batch_sizes(a) |->
        dgmm_b_batch_sizes(a)[n] * a.batch_count]

\* Element i of batch b of the host_batch_vector n, v[b][i]: an index
\* outside the allocation of the batch is outside the buffer.
dgmm_b_cell(a, n, b, i) ==
    LET sz == dgmm_b_batch_sizes(a)[n]
    IN  IF 0 <= i /\ i < sz THEN <<n, b * sz + i>> ELSE <<n, -1>>

\* ptrdiff_t shift_x = incx < 0 ? -ptrdiff_t(incx) * (N - 1) : 0
dgmm_b_shift_x(a) == IF a.incx < 0 THEN (-a.incx) * (a.N - 1) ELSE 0

\* The index of hx_copy[b] read for the element (i1, i2):
\* shift_x + i2 * incx (right side), shift_x + i1 * incx (left side).
dgmm_b_index_x(a, i1, i2) ==
    dgmm_b_shift_x(a) + (IF a.side = "R" THEN i2 ELSE i1) * a.incx

\* hipblasDgmmBatchedFn(handle, side, M, N, dA, lda, dx, incx, dC, ldc,
\* batch_count): C = A diag(x) (right side) or diag(x) A (left side) in
\* every batch, x a vector of k elements with increment incx.
dgmm_b_data_call(a) ==
    LET ij == (0 .. (a.M - 1)) \X (0 .. (a.N - 1))
        bs == 0 .. (a.batch_count - 1)
        C(b, e) == dgmm_b_cell(a, "dC", b, e[1] + e[2] * a.ldc)
        Of(c) == CHOOSE be \in bs \X ij : C(be[1], be[2]) = c
        Reads(b, e) ==
            {dgmm_b_cell(a, "dA", b, e[1] + e[2] * a.lda),
             dgmm_b_cell(a, "dx", b,
                         VecPos(IF a.side = "R" THEN e[2] ELSE e[1],
                                dgmm_b_k(a), a.incx))}
    IN  Cells("call", 113, 0,
              [c \in { C(be[1], be[2]) : be \in bs \X ij } |->
                  Reads(Of(c)[1], Of(c)[2])])

\* hC_gold[b][i1 + i2 * ldc] = hA_copy[b][i1 + i2 * lda] * hx_copy[b][...]
\* Mutant: hC_gold is indexed with lda.
dgmm_b_data_reference_lda(a) ==
    LET ij == (0 .. (a.M - 1)) \X (0 .. (a.N - 1))
        C(b, e) == dgmm_b_cell(a, "hC_gold", b, e[1] + e[2] * a.lda)
        Of(b, c) == CHOOSE e \in ij : C(b, e) = c
        Reads(b, e) ==
            {dgmm_b_cell(a, "hA_copy", b, e[1] + e[2] * a.lda),
             dgmm_b_cell(a, "hx_copy", b, dgmm_b_index_x(a, e[1], e[2]))}
        OneBatch(b) ==
          << Cells("ref", 140, b,
                   [c \in { C(b, e) : e \in ij } |-> Reads(b, Of(b, c))]) >>
    IN  Unroll(OneBatch, 0, a.batch_count - 1)

dgmm_b_data_reference(a) ==
    LET ij == (0 .. (a.M - 1)) \X (0 .. (a.N - 1))
        C(b, e) == dgmm_b_cell(a, "hC_gold", b, e[1] + e[2] * a.ldc)
        Of(b, c) == CHOOSE e \in ij : C(b, e) = c
        Reads(b, e) ==
            {dgmm_b_cell(a, "hA_copy", b, e[1] + e[2] * a.lda),
             dgmm_b_cell(a, "hx_copy", b, dgmm_b_index_x(a, e[1], e[2]))}
        OneBatch(b) ==
          << Cells("ref", 140, b,
                   [c \in { C(b, e) : e \in ij } |-> Reads(b, Of(b, c))]) >>
    IN  Unroll(OneBatch, 0, a.batch_count - 1)

\* hipMemcpy(dst, src, sizeof(T) * n, ...), dst.transfer_from(src), under
\* ASSERT_HIP_SUCCESS.
transfer(ln, dst, src, n) ==
    Cells("transfer", ln, 0,
          [c \in CellsOf(dst, 0 .. (n - 1)) |-> {<<src, c[2]>>}])

\* hipblas_init_vector(h, ...), for(i < n) h[i] = ...: every element.
vector_init(ln, h, n) ==
    Cells("fill", ln, 0, [c \in CellsOf(h, 0 .. (n - 1)) |-> {}])

dgmm_b_data(a) ==
    LET n == dgmm_b_data_sizes(a)
    IN  << vector_init(95, "hA", n.hA),
           vector_init(96, "hx", n.hx),
           vector_init(97, "hC", n.hC),
           vector_assign(99, "hA_copy", "hA", n.hA),
           vector_assign(100, "hx_copy", "hx", n.hx),
           vector_assign(101, "hC_1", "hC", n.hC),
           vector_assign(102, "hC_gold", "hC_gold", n.hC),
           transfer(104, "dA", "hA", n.hA),
           transfer(105, "dx", "hx", n.hx),
           transfer(106, "dC", "hC", n.hC),
           dgmm_b_data_call(a),
           transfer(124, "hC_1", "dC", n.hC) >>
        \o dgmm_b_data_reference(a)

\* The reference loop on values: hA and hx are the contents of one batch
\* (functions of the index), the result is the content of hC_gold at the
\* indices the loop writes; an index outside hx reads no value.
dgmm_b_gold(a, hA, hx) ==
    LET ij == (0 .. (a.M - 1)) \X (0 .. (a.N - 1))
        Of(p) == CHOOSE e \in ij : e[1] + e[2] * a.ldc = p
        X(e) == dgmm_b_index_x(a, e[1], e[2])
    IN  [p \in { e[1] + e[2] * a.ldc : e \in ij } |->
            IF X(Of(p)) \in DOMAIN hx
            THEN hA[Of(p)[1] + Of(p)[2] * a.lda] * hx[X(Of(p))]
            ELSE -1]

(***************************************************************************)
(* testing_tbsv_strided_batched: initialisation, hb = hx, the preparation  *)
(* loop, hx_or_b_1 = hb and the two copies to the device.                  *)
(***************************************************************************)
tbsv_sb_data_sizes(a) ==
    LET size_A == tbsv_sb_strideA(a).v * a.batch_count
        size_AB == tbsv_sb_strideAB(a).v * a.batch_count
        size_x == tbsv_sb_stridex(a).v * a.batch_count
    IN  [hA |-> size_A, hAB |-> size_AB, AAT |-> size_A, hb |-> size_x,
         hx |-> size_x, hx_or_b_1 |-> size_x, dAB |-> size_AB,
         dx_or_b |-> size_x]

\* The N x N dense matrix of batch b in buffer n (leading dimension N).
tbsv_dense(a, n, b) ==
    { <<n, b * tbsv_sb_strideA(a).v + i + j * a.N>> :
        i \in 0 .. (a.N - 1), j \in 0 .. (a.N - 1) }

\* The rows of the dense matrix that column j of the band stores:
\* j - K .. j (upper) or j .. j + K (lower), inside the matrix.
tbsv_band_rows(a, j) ==
    IF a.uplo = "U" THEN { i \in 0 .. (a.N - 1) : j - a.K <= i /\ i <= j }
                    ELSE { i \in 0 .. (a.N - 1) : j <= i /\ i <= j + a.K }

\* Position in hAB of the stored element (i, j) of batch b.
tbsv_band_pos(a, b, i, j) ==
    b * tbsv_sb_strideAB(a).v + j * a.lda
        + (IF a.uplo = "U" THEN a.K + i - j ELSE i - j)

\* The stored elements of the band.
tbsv_stored(a) ==
    { ij \in (0 .. (a.N - 1)) \X (0 .. (a.N - 1)) :
        ij[1] \in tbsv_band_rows(a, ij[2]) }

\* regular_to_banded(upper, hAbat, N, hABbat, lda, N, K).
tbsv_regular_to_banded(a, b) ==
    LET Written == { <<"hAB", tbsv_band_pos(a, b, ij[1], ij[2])>> :
                       ij \in tbsv_stored(a) }
        Of(c) == CHOOSE ij \in tbsv_stored(a) :
                    c[2] = tbsv_band_pos(a, b, ij[1], ij[2])
    IN  Cells("prep", 132, b,
              [c \in Written |->
                  {<<"hA", b * tbsv_sb_strideA(a).v
                             + Of(c)[1] + Of(c)[2] * a.N>>}])

\* cblas_tbmv(uplo, transA, diag, N, K, hABbat, lda, hbbat, incx):
\* element i of the result is computed from the elements j of hb and the
\* stored elements (i, j) of op(A).
tbsv_tbmv(a, b) ==
    LET X(i) == <<"hb", b * tbsv_sb_stridex(a).v + VecPos(i, a.N, a.incx)>>
        Row(i) == { j \in 0 .. (a.N - 1) :
                      IF a.transA = "N" THEN <<i, j>> \in tbsv_stored(a)
                                        ELSE <<j, i>> \in tbsv_stored(a) }
        Band(i, j) == IF a.transA = "N" THEN tbsv_band_pos(a, b, i, j)
                                        ELSE tbsv_band_pos(a, b, j, i)
        Index(c) == CHOOSE i \in 0 .. (a.N - 1) : c = X(i)
    IN  Cells("prep", 135, b,
              [c \in { X(i) : i \in 0 .. (a.N - 1) } |->
                  { X(j) : j \in Row(Index(c)) }
                  \cup { <<"hAB", Band(Index(c), j)>> : j \in Row(Index(c)) }])

tbsv_sb_data_prepare(a) ==
    LET OneBatch(b) ==
          << Cells("prep", 124, b,
                   [c \in tbsv_dense(a, "hA", b) |-> {c}]),
             Cells("prep", 126, b,
                   [c \in tbsv_dense(a, "hA", b) \cup tbsv_dense(a, "AAT", b)
                       |-> tbsv_dense(a, "hA", b)]) >>
          \o When(a.diag = "U",
                  << Cells("prep", 129, b,
                           [c \in tbsv_dense(a, "hA", b) |-> {c}]) >>)
          \o << tbsv_regular_to_banded(a, b), tbsv_tbmv(a, b) >>
    IN  Unroll(OneBatch, 0, a.batch_count - 1)

tbsv_sb_data(a) ==
    LET n == tbsv_sb_data_sizes(a)
        batches == 0 .. (a.batch_count - 1)
    IN  << Cells("fill", 113, 0,
                 [c \in UNION { tbsv_dense(a, "hA", b) : b \in batches }
                     |-> {}]),
           Cells("fill", 114, 0,
                 [c \in { <<"hx", b * tbsv_sb_stridex(a).v + i * abs(a.incx)>> :
                            b \in batches, i \in 0 .. (a.N - 1) } |-> {}]),
           vector_assign(116, "hb", "hx", n.hx) >>
        \o tbsv_sb_data_prepare(a)
        \o << vector_assign(138, "hx_or_b_1", "hb", n.hx),
              transfer(141, "dAB", "hAB", n.hAB),
              transfer(142, "dx_or_b", "hx_or_b_1", n.hx) >>

(***************************************************************************)
(* testing_set_get_matrix_async: initialisation, the set and the get, the  *)
(* reference loop.  All matrices are column-major: element (i1, i2) of a   *)
(* matrix with leading dimension ld is at i1 + i2 * ld.                    *)
(***************************************************************************)
set_get_data_sizes(a) ==
    [ha |-> a.cols * a.lda, hb |-> a.cols * a.ldb, hb_ref |-> a.cols * a.ldb,
     hc |-> a.cols * a.ldc, dc |-> a.cols * a.ldc]

\* The elements of the rows x cols matrix.
set_get_region(a) == (0 .. (a.rows - 1)) \X (0 .. (a.cols - 1))

\* The last element, in the order of the loops (i1 outer, i2 inner), that
\* is stored at position p with leading dimension ld.
set_get_last(a, ld, p) ==
    LET at == { e \in set_get_region(a) : e[1] + e[2] * ld = p }
    IN  CHOOSE e \in at :
            \A f \in at : f[1] < e[1] \/ (f[1] = e[1] /\ f[2] <= e[2])

\* dst[i1 + i2 * ldd] = src[i1 + i2 * lds] for the rows x cols elements.
set_get_copy(a, op, ln, dst, ldd, src, lds) ==
    Cells(op, ln, 0,
          [c \in { <<dst, e[1] + e[2] * ldd>> : e \in set_get_region(a) } |->
              LET e == set_get_last(a, ldd, c[2])
              IN  {<<src, e[1] + e[2] * lds>>}])

\* hipblas_init<T>(h, rows, cols, ld)
set_get_init(a, ln, h, ld) ==
    Cells("fill", ln, 0,
          [c \in { <<h, e[1] + e[2] * ld>> : e \in set_get_region(a) }
              |-> {}])

set_get_data(a) ==
    LET n == set_get_data_sizes(a)
    IN  << set_get_init(a, 76, "ha", a.lda),
           set_get_init(a, 77, "hb", a.ldb),
           vector_assign(78, "hb_ref", "hb", n.hb),
           vector_init(79, "hc", n.hc),
           transfer(83, "dc", "hc", n.hc),
           vector_init(84, "hc", n.hc),
           set_get_copy(a, "transfer", 93, "dc", a.ldc, "ha", a.lda),
           set_get_copy(a, "transfer", 95, "hb", a.ldb, "dc", a.ldc),
           set_get_copy(a, "ref", 110, "hb_ref", a.ldb, "ha", a.lda) >>

(***************************************************************************)
(* The test cases of DataSpec: descriptors that pass the pre-check, with   *)
(* dimensions and batch counts large enough for batches to have            *)
(* neighbours.                                                             *)
(***************************************************************************)
DataRoutines == {"tpmv_strided_batched", "rot_strided_batched_ex",
                 "dgmm_batched", "tbsv_strided_batched",
                 "set_get_matrix_async"}

DataShapes(r) ==
    CASE r = "tpmv_strided_batched" ->
           { [NoArg EXCEPT !.N = n, !.incx = ix, !.batch_count = bc,
                           !.stride_scale = sc, !.uplo = ul, !.transA = tr] :
               n \in DataDims, ix \in DataIncs, bc \in DataBatches,
               sc \in Scales, ul \in {"U", "L"}, tr \in {"N", "T"} }
      [] r = "rot_strided_batched_ex" ->
           { [NoArg EXCEPT !.N = n, !.incx = ix, !.incy = iy,
                           !.batch_count = bc, !.stride_scale = sc] :
               n \in DataDims, ix \in DataIncs, iy \in DataIncs,
               bc \in DataBatches, sc \in Scales }
      [] r = "dgmm_batched" ->
           { [NoArg EXCEPT !.M = m, !.N = n, !.lda = ld, !.incx = ix,
                           !.ldc = lc, !.batch_count = bc, !.side = s] :
               m \in DataDims, n \in DataDims, ld \in DataDims,
               ix \in DataIncs, lc \in DataDims, bc \in DataBatches,
               s \in {"L", "R"} }
      [] r = "tbsv_strided_batched" ->
           { [NoArg EXCEPT !.N = n, !.K = k, !.lda = ld, !.incx = ix,
                           !.batch_count = bc, !.diag = d,
                           !.stride_scale = sc, !.uplo = ul, !.transA = tr] :
               n \in DataDims, k \in 0 .. (DataDim - 1), ld \in DataDims,
               ix \in DataIncs, bc \in DataBatches, d \in {"U", "N"},
               sc \in Scales, ul \in {"U", "L"}, tr \in {"N", "T"} }
      [] r = "set_get_matrix_async" ->
           { [NoArg EXCEPT !.rows = m, !.cols = n, !.lda = la, !.ldb = lb,
                           !.ldc = lc] :
               m \in 0 .. DataDim, n \in 0 .. DataDim, la \in DataDims,
               lb \in DataDims, lc \in DataDims }

DataArgs(r) == { a \in DataShapes(r) : ~PreCheck(r, a) }

\* The number of elements of each host buffer.
DataSizes(r, a) ==
    CASE r = "tpmv_strided_batched" -> tpmv_sb_data_sizes(a)
      [] r = "rot_strided_batched_ex" -> rot_sb_ex_data_sizes(a)
      [] r = "dgmm_batched" -> dgmm_b_data_sizes(a)
      [] r = "tbsv_strided_batched" -> tbsv_sb_data_sizes(a)
      [] r = "set_get_matrix_async" -> set_get_data_sizes(a)

DataProgram(r, a) ==
    CASE r = "tpmv_strided_batched" -> tpmv_sb_data(a)
      [] r = "rot_strided_batched_ex" -> rot_sb_ex_data(a)
      [] r = "dgmm_batched" -> dgmm_b_data(a)
      [] r = "tbsv_strided_batched" -> tbsv_sb_data(a)
      [] r = "set_get_matrix_async" -> set_get_data(a)

\* Every cell of the buffers constructed holds its initial content.
DataInit ==
    /\ routine \in DataRoutines
    /\ arg \in DataArgs(routine)
    /\ prog = DataProgram(routine, arg)
    /\ pc = 1
    /\ status = "running"
    /\ bufs = [n \in DOMAIN DataSizes(routine, arg) |->
                 [p \in 0 .. (DataSizes(routine, arg)[n] - 1) |-> {<<n, p>>}]]
    /\ pending = {}
    /\ mode = "host"
    /\ locals = Empty
    /\ logged = 0
    /\ seeded = FALSE
    /\ trace = <<>>

DataAt(op) == status = "running" /\ pc <= Len(prog) /\ prog[pc].op = op

InBuffer(c) == c[1] \in DOMAIN bufs /\ c[2] \in DOMAIN bufs[c[1]]

\* The cells statement st writes or reads.
Addressed(st) == DOMAIN st.upd \cup UNION { st.upd[c] : c \in DOMAIN st.upd }

Content(c) == IF InBuffer(c) THEN bufs[c[1]][c[2]] ELSE {Indeterminate}

\* What statement st leaves in the cell c it writes: an initialisation
\* gives the cell a content of its own.
Result(st, c) ==
    IF st.op = "fill" THEN {c} ELSE UNION { Content(r) : r \in st.upd[c] }

Apply(st) ==
    \E crash \in BOOLEAN :
        LET inside == \A c \in Addressed(st) : InBuffer(c)
        IN  /\ crash => ~inside
            /\ IF crash
               THEN /\ status' = "crashed"
                    /\ trace' = Append(trace, FALSE)
                    /\ UNCHANGED <<bufs, pc>>
               ELSE /\ bufs' = [n \in DOMAIN bufs |->
                                  [p \in DOMAIN bufs[n] |->
                                      IF <<n, p>> \in DOMAIN st.upd
                                      THEN Result(st, <<n, p>>)
                                      ELSE bufs[n][p]]]
                    /\ pc' = pc + 1
                    /\ trace' = Append(trace, inside)
                    /\ UNCHANGED status
            /\ UNCHANGED <<routine, arg, prog, pending, mode, locals, logged,
                           seeded>>

\* hipblas_init_matrix, hipblas_init_vector, hipblas_init, hc[i] = ...
FillCells == DataAt("fill") /\ Apply(prog[pc])

\* hb = hx, hx_or_b_1 = hb, copy_from
CopyCells == DataAt("copy") /\ Apply(prog[pc])

\* hipMemcpy, hipblasSetMatrixAsync, hipblasGetMatrixAsync: the status is
\* asserted, a failure leaves the test case.
TransferCells ==
    /\ DataAt("transfer")
    /\ \/ Apply(prog[pc])
       \/ /\ status' = "aborted"
          /\ trace' = Append(trace, FALSE)
          /\ UNCHANGED <<routine, arg, prog, pc, bufs, pending, mode,
                         locals, logged, seeded>>

\* The device function under ASSERT_HIPBLAS_SUCCESS.
DeviceCells ==
    /\ DataAt("call")
    /\ \/ Apply(prog[pc])
       \/ /\ status' = "aborted"
          /\ trace' = Append(trace, FALSE)
          /\ UNCHANGED <<routine, arg, prog, pc, bufs, pending, mode,
                         locals, logged, seeded>>

\* The helpers of the preparation loop of tbsv_strided_batched.
PrepareCells == DataAt("prep") /\ Apply(prog[pc])

\* cblas_tpmv, cblas_rot, the reference loops of dgmm and set_get.
ReferenceCells == DataAt("ref") /\ Apply(prog[pc])

DataReturn ==
    /\ status = "running"
    /\ pc > Len(prog)
    /\ status' = "done"
    /\ UNCHANGED <<routine, arg, prog, pc, bufs, pending, mode, locals,
                   logged, seeded, trace>>

DataNext ==
    \/ FillCells
    \/ CopyCells
    \/ TransferCells
    \/ DeviceCells
    \/ PrepareCells
    \/ ReferenceCells
    \/ DataReturn

DataSpec == DataInit /\ [][DataNext]_vars

(***************************************************************************)
(* Vocabulary of the claims about DataSpec.                                *)
(***************************************************************************)
\* The cells of the inputs of the reference computation in the slices of
\* batch k.
BatchInputs(k) ==
    CASE routine = "tpmv_strided_batched" ->
           CellsOf("hx", Slice(k, tpmv_sb_stride_x(arg).v,
                               PerBatchSize(routine, arg, "x")))
           \cup CellsOf("hA", Slice(k, tpmv_sb_stride_A(arg).v,
                                    PerBatchSize(routine, arg, "A")))
      [] routine = "rot_strided_batched_ex" ->
           CellsOf("hx_host", Slice(k, rot_sb_ex_stridex(arg).v,
                                    PerBatchSize(routine, arg, "x")))
           \cup CellsOf("hy_host", Slice(k, rot_sb_ex_stridey(arg).v,
                                         PerBatchSize(routine, arg, "y")))

\* The cells of the outputs of the reference computation in the slices of
\* batch k, and all of them.
BatchOutputs(k) ==
    CASE routine = "tpmv_strided_batched" ->
           CellsOf("hx", Slice(k, tpmv_sb_stride_x(arg).v,
                               PerBatchSize(routine, arg, "x")))
      [] routine = "rot_strided_batched_ex" ->
           CellsOf("hx_cpu", Slice(k, rot_sb_ex_stridex(arg).v,
                                   PerBatchSize(routine, arg, "x")))
           \cup CellsOf("hy_cpu", Slice(k, rot_sb_ex_stridey(arg).v,
                                        PerBatchSize(routine, arg, "y")))

RefOutputs ==
    LET names == IF routine = "tpmv_strided_batched" THEN {"hx"}
                 ELSE {"hx_cpu", "hy_cpu"}
    IN  UNION { CellsOf(n, DOMAIN bufs[n]) : n \in names }

(***************************************************************************)
(* C13, as stated.  In the reference path of tpmv_strided_batched and      *)
(* rot_strided_batched_ex, changing only the inputs located in the slice   *)
(* of batch k can change the outputs only inside the slice of batch k: no  *)
(* output cell outside the slice of batch k is computed from an input cell *)
(* inside it, and the loop stays inside the buffers.  With stride_scale <  *)
(* 1 the slices overlap and the last batch runs past the buffers.          *)
(***************************************************************************)
C13_AsStated ==
    routine \in {"tpmv_strided_batched", "rot_strided_batched_ex"} =>
        /\ status # "crashed"
        /\ \A k \in 0 .. (arg.batch_count - 1) :
              \A c \in RefOutputs \ BatchOutputs(k) :
                  bufs[c[1]][c[2]] \cap (BatchInputs(k) \cup {Indeterminate})
                      = {}

\* The tolerance of the unit check of routine r, in units of the machine
\* epsilon: 40 * N in tbsv_strided_batched, none elsewhere.
UnitTolerance(r, a) == IF r = "tbsv_strided_batched" THEN 40 * a.N ELSE 0

UnitChecks == { i \in Executed : prog[i].op = "unit" }

\* The norm of the difference of gold and res (of batch b) computed at
\* line ln.
ErrorOf(ln, gold, res, b) == [ln |-> ln, gold |-> gold, res |-> res, b |-> b]

NormOps == {"norm", "normadd", "accum"}
Without(p, ops) == SelectSeq(p, LAMBDA st : st.op \notin ops)

\* The descriptor with one switch toggled.
ToggleNorm(a) == [a EXCEPT !.norm_check = ~@]
ToggleUnit(a) == [a EXCEPT !.unit_check = ~@]

\* Every unit check executed precedes every norm check executed.
UnitBeforeNorm ==
    \A i, j \in Executed :
        (prog[i].op = "unit" /\ prog[j].op \in {"norm", "normadd"}) => i < j

\* The statement before unit check i computes the error of the same batch
\* from the same buffers.
NormOfUnit(i) ==
    /\ i > 1
    /\ prog[i - 1].op = "norm"
    /\ prog[i - 1].b = prog[i].b
    /\ prog[i - 1].from = prog[i].from
    /\ prog[i - 1].tag = prog[i].tag

\* Apart from the comparisons of one kind, the test case with the switch
\* of that kind toggled executes the same statements.
SwitchesIndependent ==
    /\ arg.unit_check =>
          Without(Program(routine, ToggleNorm(arg)), NormOps)
              = Without(prog, NormOps)
    /\ arg.norm_check =>
          Without(Program(routine, ToggleUnit(arg)), {"unit"})
              = Without(prog, {"unit"})

(***************************************************************************)
(* C19, as stated.  When both unit_check and norm_check are enabled, every *)
(* unit check of the test case completes before any norm check starts.     *)
(* In tbsv_strided_batched the norm of a batch is computed (line 172)      *)
(* before the unit check of that batch (line 177), which compares that     *)
(* norm with the tolerance.                                                *)
(***************************************************************************)
C19_AsStated == (arg.unit_check /\ arg.norm_check) => UnitBeforeNorm

(***************************************************************************)
(* C19.  When both unit_check and norm_check are enabled, in the routines  *)
(* whose unit check compares the buffers element by element every unit     *)
(* check completes before any norm check starts; in tbsv_strided_batched   *)
(* the unit check of a batch is made on the norm of that batch, computed   *)
(* by the statement before it.  A unit check leaves every buffer           *)
(* unchanged, so the comparisons after it read the values it read.         *)
(* Toggling one of the two switches changes no statement other than the    *)
(* comparisons of that kind, so the verdict of the other kind is the same  *)
(* (the descriptor and the statements of a test case never change, so this *)
(* is stated of the initial state).                                        *)
(***************************************************************************)
C19_ChecksIndependent ==
    /\ SwitchesIndependent
    /\ [](/\ (arg.unit_check /\ arg.norm_check
                /\ routine # "tbsv_strided_batched") => UnitBeforeNorm
          /\ routine = "tbsv_strided_batched" =>
                \A i \in Executed : prog[i].op = "unit" => NormOfUnit(i))
    /\ [][At("unit") => bufs' = bufs]_vars

\* syr_batched with both switches enabled: the two unit checks, one of
\* which reported a mismatch, then the two norm checks, all executed.
C19_Witness ==
    /\ Completed
    /\ routine = "syr_batched"
    /\ arg.unit_check /\ arg.norm_check
    /\ CountOf({"unit"}) = 2
    /\ CountOf({"norm"}) = 2
    /\ UnitFailed

(***************************************************************************)
(* Vocabulary of the preparation of tbsv_strided_batched.                  *)
(***************************************************************************)
\* The helpers of the preparation loop, in the order of the loop body.
PrepHelpers(a) ==
    << "banded_matrix_setup", "prepare_triangular_solve" >>
    \o When(a.diag = "U", << "make_unit_diagonal" >>)
    \o << "regular_to_banded", "cblas_tbmv" >>

\* The helpers executed so far on batch b, in the order executed.
PrepDone(b) ==
    LET Tag(st) == st.tag
        Of(st) == st.op = "prep" /\ st.b = b
        done == SelectSeq(SubSeq(prog, 1, Len(trace)), Of)
    IN  [k \in 1 .. Len(done) |-> Tag(done[k])]

IsPrefix(s, t) == Len(s) <= Len(t) /\ s = SubSeq(t, 1, Len(s))

\* The helpers applied to the matrix before regular_to_banded.
DenseHelpers(a) ==
    {"banded_matrix_setup", "prepare_triangular_solve"}
    \cup (IF a.diag = "U" THEN {"make_unit_diagonal"} ELSE {})

(***************************************************************************)
(* C20.  In tbsv_strided_batched the preparation of every batch runs       *)
(* banded_matrix_setup, prepare_triangular_solve, make_unit_diagonal only  *)
(* when diag is unit, regular_to_banded and cblas_tbmv in that order, and  *)
(* is complete for all batches before the first host-to-device copy.  The  *)
(* device matrix dAB is copied from hAB and holds the banded re-layout of  *)
(* the prepared matrix, the device vector holds the right-hand side formed *)
(* by tbmv, and the dense hA is never copied to the device.                *)
(***************************************************************************)
C20_PreparationFirst ==
    routine = "tbsv_strided_batched" =>
        /\ \A b \in 0 .. (arg.batch_count - 1) :
              /\ IsPrefix(PrepDone(b), PrepHelpers(arg))
              /\ (\E i \in Executed : prog[i].op = "h2d")
                    => PrepDone(b) = PrepHelpers(arg)
        /\ \A i \in Executed :
              prog[i].op = "h2d" =>
                  /\ "hA" \notin prog[i].src
                  /\ "dAB" \in prog[i].dst => prog[i].src = {"hAB"}
                  /\ (trace[i].ok /\ arg.batch_count > 0) =>
                        \A d \in prog[i].dst :
                            bufs[d].hist =
                                IF d = "dAB"
                                THEN DenseHelpers(arg)
                                         \cup {"regular_to_banded"}
                                ELSE {"cblas_tbmv"}

\* A unit-diagonal test case with a batch: the five helpers ran on batch 0
\* and both copies to the device succeeded after them.
C20_Witness ==
    /\ routine = "tbsv_strided_batched"
    /\ arg.diag = "U"
    /\ arg.batch_count >= 1
    /\ Len(PrepDone(0)) = 5
    /\ \E i \in Executed :
          prog[i].op = "h2d" /\ prog[i].dst = {"dx_or_b"} /\ trace[i].ok
    /\ "regular_to_banded" \in bufs["dAB"].hist

(***************************************************************************)
(* C15, as stated.  The reference computation of dgmm_batched, for M = 2,  *)
(* N = 2, side = right, incx = 1, lda = ldc = 2, x = [2, 3] and A =        *)
(* [[1, 2], [3, 4]] stored column-major, produces C = [[2, 6], [6, 12]];   *)
(* in general, in every batch, the element (i, j) of hC_gold is computed   *)
(* as the product of the element (i, j) of A and the element j (side =     *)
(* right) or i (side = left) of the vector x of k elements with increment  *)
(* incx, for all 0 <= i < M, 0 <= j < N, and the loop stays inside the     *)
(* buffers.  The loop shifts the index of x by |incx| * (N - 1) also for   *)
(* side = left, where x has M elements.                                    *)
(***************************************************************************)
C15_AsStated ==
    LET example == [NoArg EXCEPT !.M = 2, !.N = 2, !.side = "R", !.incx = 1,
                                 !.lda = 2, !.ldc = 2, !.batch_count = 1]
        hA == [p \in 0 .. 3 |-> <<1, 3, 2, 4>>[p + 1]]
        hx == [p \in 0 .. 1 |-> <<2, 3>>[p + 1]]
        sz == dgmm_b_batch_sizes(arg)
        A(b, i, j) == <<"hA", b * sz.hA + i + j * arg.lda>>
        X(b, e) == <<"hx", b * sz.hx + VecPos(e, dgmm_b_k(arg), arg.incx)>>
    IN  /\ dgmm_b_gold(example, hA, hx)
              = [p \in 0 .. 3 |-> <<2, 6, 6, 12>>[p + 1]]
        /\ routine = "dgmm_batched" =>
              /\ status # "crashed"
              /\ status = "done" =>
                    \A b \in 0 .. (arg.batch_count - 1) :
                    \A i \in 0 .. (arg.M - 1) :
                    \A j \in 0 .. (arg.N - 1) :
                        Content(<<"hC_gold", b * sz.hC_gold + i + j * arg.ldc>>)
                            = {A(b, i, j),
                               X(b, IF arg.side = "R" THEN j ELSE i)}

(***************************************************************************)
(* Vocabulary of the round trip of tbsv_strided_batched.                   *)
(***************************************************************************)
\* The cell of the logical element i of batch b of the vector n.
tbsv_x(n, b, i) ==
    <<n, b * tbsv_sb_stridex(arg).v + VecPos(i, arg.N, arg.incx)>>

\* The cells of hAB that hold the band of batch b.
tbsv_band(n, b) ==
    { <<n, tbsv_band_pos(arg, b, e[1], e[2])>> : e \in tbsv_stored(arg) }

(***************************************************************************)
(* C16, as stated.  In tbsv_strided_batched, for each batch b, the         *)
(* right-hand side sent to the device (dx_or_b) is the banded matrix of    *)
(* that batch multiplied by the known solution hx of that batch: element i *)
(* is computed from element i of hx of batch b, from no element of hx of   *)
(* another batch and from no matrix other than that of batch b.  The       *)
(* device matrix dAB is the banded matrix hAB, whose band of batch b holds *)
(* the prepared dense matrix of batch b.  hx is not modified, and the      *)
(* comparisons of the device result read hx, not the right-hand side hb.   *)
(* No statement leaves the buffers.  With stride_scale < 1 the slices of   *)
(* the batches overlap.                                                    *)
(***************************************************************************)
C16_AsStated ==
    routine = "tbsv_strided_batched" =>
        /\ status # "crashed"
        /\ \A p \in DOMAIN bufs["hx"] : bufs["hx"][p] = {<<"hx", p>>}
        /\ \A k \in DOMAIN tbsv_sb_errors(arg) :
              tbsv_sb_errors(arg)[k].op \in {"norm", "unit"} =>
                  /\ tbsv_sb_errors(arg)[k].from = "hx"
                  /\ tbsv_sb_errors(arg)[k].tag = "hx_or_b_1"
        /\ status = "done" =>
              /\ \A p \in DOMAIN bufs["dAB"] :
                    bufs["dAB"][p] = bufs["hAB"][p]
              /\ \A b \in 0 .. (arg.batch_count - 1) :
                    /\ \A c \in tbsv_band("dAB", b) :
                          /\ Content(c) # {}
                          /\ Content(c) \subseteq tbsv_dense(arg, "hA", b)
                    /\ \A i \in 0 .. (arg.N - 1) :
                          /\ tbsv_x("hx", b, i)
                                \in Content(tbsv_x("dx_or_b", b, i))
                          /\ Content(tbsv_x("dx_or_b", b, i))
                                \subseteq
                                  { tbsv_x("hx", b, j) : j \in 0 .. (arg.N - 1) }
                                  \cup tbsv_dense(arg, "hA", b)

(***************************************************************************)
(* C17, as stated.  In set_get_matrix_async, after the set (ha to dc) and  *)
(* the get (dc to hb) have succeeded, hb[i1 + i2 * ldb] = ha[i1 + i2 *     *)
(* lda] for all 0 <= i1 < rows, 0 <= i2 < cols, every element of hb        *)
(* outside that region keeps its initial value, and after the reference    *)
(* loop hb_ref is equal to hb on the region.  No statement leaves the      *)
(* buffers.  The pre-check admits leading dimensions smaller than rows,    *)
(* for which the buffers of cols * ld elements do not hold the region.     *)
(***************************************************************************)
C17_AsStated ==
    routine = "set_get_matrix_async" =>
        LET region == set_get_region(arg)
            inside == { e[1] + e[2] * arg.ldb : e \in region }
            got == \E i \in 1 .. Len(trace) : prog[i].ln = 95
        IN  /\ status # "crashed"
            /\ (got /\ status # "aborted") =>
                  /\ \A e \in region :
                        Content(<<"hb", e[1] + e[2] * arg.ldb>>)
                            = {<<"ha", e[1] + e[2] * arg.lda>>}
                  /\ \A p \in DOMAIN bufs["hb"] \ inside :
                        bufs["hb"][p] = {<<"hb", p>>}
            /\ status = "done" =>
                  \A e \in region :
                      Content(<<"hb_ref", e[1] + e[2] * arg.ldb>>)
                          = Content(<<"hb", e[1] + e[2] * arg.ldb>>)

(***************************************************************************)
(* Vocabulary of the switches.                                             *)
(***************************************************************************)
NoSwitch == ~arg.unit_check /\ ~arg.norm_check /\ ~arg.timing
NormalPath == ~PreCheck(routine, arg)

(***************************************************************************)
(* C29, as stated.  In every routine, once the pre-check has passed, the   *)
(* device function is invoked only if at least one of unit_check,          *)
(* norm_check or timing is enabled.  set_get_matrix_async makes its set    *)
(* and its get (lines 93-95) outside the blocks the switches guard.        *)
(***************************************************************************)
C29_AsStated == (NormalPath /\ NoSwitch) => DeviceCalls = {}

(***************************************************************************)
(* C29.  In tpmv, tpmv_strided_batched, tbsv_strided_batched, syr_batched, *)
(* dgmm_batched and rot_strided_batched_ex, once the pre-check has passed, *)
(* the device function is invoked only if at least one of unit_check,      *)
(* norm_check or timing is enabled.  set_get_matrix_async with the three   *)
(* switches off invokes the set and the get of lines 93 and 95, once each, *)
(* and no other device function.                                           *)
(***************************************************************************)
C29_SwitchGated ==
    (NormalPath /\ NoSwitch) =>
        IF routine = "set_get_matrix_async"
        THEN /\ \A i \in DeviceCalls : prog[i].ln \in {93, 95}
             /\ \A i, j \in DeviceCalls : prog[i].ln = prog[j].ln => i = j
             /\ Completed => { prog[i].ln : i \in DeviceCalls } = {93, 95}
        ELSE DeviceCalls = {}

\* A test case of tpmv on the normal path with the three switches off ran
\* to its end: allocation, initialisation and copies, no device function.
C29_Witness ==
    /\ routine = "tpmv"
    /\ NormalPath /\ NoSwitch
    /\ Completed
    /\ \E i \in Executed : prog[i].op = "h2d"

(***************************************************************************)
(* C28.  In syr_batched, dgmm_batched, tpmv, tpmv_strided_batched and      *)
(* tbsv_strided_batched invalidity takes precedence over the quick return: *)
(* the pre-check call of a descriptor the routine rejects expects          *)
(* HIPBLAS_STATUS_INVALID_VALUE also when the descriptor is of zero size   *)
(* (N = 0 with a zero increment, or with a negative batch count), a        *)
(* SUCCESS returned for it is a failed expectation, and SUCCESS is         *)
(* expected only of a descriptor the routine does not reject.              *)
(***************************************************************************)
C28_InvalidFirst ==
    routine \in {"syr_batched", "dgmm_batched", "tpmv",
                 "tpmv_strided_batched", "tbsv_strided_batched"} =>
        \A i \in Executed :
            NullCall(i) =>
                /\ (C1_Rejected(routine, arg) /\ SpecZeroSize(routine, arg))
                      => prog[i].exp = "INVALID_VALUE"
                /\ prog[i].exp = "SUCCESS" =>
                      (~C1_Rejected(routine, arg)
                       /\ SpecZeroSize(routine, arg))
                /\ prog[i].exp \in {"SUCCESS", "INVALID_VALUE"}
                /\ trace[i].ok <=> trace[i].actual = prog[i].exp

\* syr_batched with N = 0 and incx = 0: the null-buffer call expected
\* INVALID_VALUE, the device function returned SUCCESS, and the expectation
\* failed.
C28_Witness ==
    /\ routine = "syr_batched"
    /\ arg.N = 0 /\ arg.incx = 0
    /\ \E i \in Executed :
          /\ NullCall(i)
          /\ prog[i].exp = "INVALID_VALUE"
          /\ trace[i].actual = "SUCCESS"
          /\ ~trace[i].ok

(***************************************************************************)
(* C26.  In syr_batched and rot_strided_batched_ex, at every invocation of *)
(* the device function after the pre-check, the pointer mode of the handle *)
(* is HOST exactly when the scalars passed are host-resident (&h_alpha;    *)
(* hc, hs) and DEVICE exactly when they are device-resident (d_alpha; dc,  *)
(* ds).  This includes the invocations of the timing loop, whether the     *)
(* checked path ran before it or not.                                      *)
(***************************************************************************)
C26_PointerMode ==
    routine \in {"syr_batched", "rot_strided_batched_ex"} =>
        \A i \in DeviceCalls :
            ~NullCall(i) =>
                /\ prog[i].tag \in {"host", "device"}
                /\ trace[i].mode = prog[i].tag
                /\ prog[i].tag = "device" <=>
                      DeviceScalars \subseteq prog[i].src
                /\ prog[i].tag = "host" <=>
                      prog[i].src \cap DeviceScalars = {}

\* syr_batched in timing mode without the checked path: a call of the
\* timing loop was made with the device scalar in DEVICE mode.
C26_Witness ==
    /\ routine = "syr_batched"
    /\ ~arg.unit_check /\ ~arg.norm_check /\ arg.timing
    /\ \E i \in DeviceCalls :
          /\ InTiming(i)
          /\ trace[i].mode = "device"
          /\ "d_alpha" \in prog[i].src

(***************************************************************************)
(* Vocabulary of the two device calls.                                     *)
(***************************************************************************)
\* For each operand updated in place: the host buffers that receive the
\* result of the host-mode call, the result of the device-mode call and
\* the result of the reference computation.
ResultBuffers(r) ==
    IF r = "syr_batched"
    THEN {[operand |-> "A", host |-> "hA_host", device |-> "hA_device",
           cpu |-> "hA_cpu"]}
    ELSE {[operand |-> "x", host |-> "hx_host", device |-> "hx_device",
           cpu |-> "hx_cpu"],
          [operand |-> "y", host |-> "hy_host", device |-> "hy_device",
           cpu |-> "hy_cpu"]}

\* The initial values of operand o after the device calls calls and the
\* reference computation of the batches refs, scalars resident in sc.
Derived(o, calls, refs, sc) ==
    [op |-> o, dev |-> calls, ref |-> refs, sc |-> sc, hist |-> {}]

(***************************************************************************)
(* C27.  In syr_batched and rot_strided_batched_ex the host-mode call, the *)
(* device-mode call and the reference computation all start from the same  *)
(* initial values of the operands: the result of each of the two calls is  *)
(* the initial operand updated by exactly that one call (the device        *)
(* buffers are restored from an unmodified host copy between the calls),   *)
(* and the reference result is the initial operand updated by the          *)
(* reference computation of every batch and by no device call.  No host    *)
(* buffer ever holds data updated by two device calls, or by a device call *)
(* and the reference computation.                                          *)
(***************************************************************************)
C27_SameInitialValues ==
    (routine \in {"syr_batched", "rot_strided_batched_ex"}
     /\ ~PreCheck(routine, arg)) =>
        /\ \A n \in DOMAIN bufs \ DeviceBuffers :
              /\ bufs[n].dev <= 1
              /\ bufs[n].dev = 1 => bufs[n].ref = {}
        /\ (Completed /\ (arg.unit_check \/ arg.norm_check)) =>
              \A t \in ResultBuffers(routine) :
                  /\ bufs[t.host] = Derived(t.operand, 1, {}, "host")
                  /\ bufs[t.device] = Derived(t.operand, 1, {}, "device")
                  /\ bufs[t.cpu] =
                        Derived(t.operand, 0, 0 .. (arg.batch_count - 1),
                                "none")

\* rot_strided_batched_ex has completed with the norm check: hx_host and
\* hx_device each hold the result of one call, hx_cpu that of the
\* reference computation of batch 0.
C27_Witness ==
    /\ routine = "rot_strided_batched_ex"
    /\ NormalPath
    /\ Completed
    /\ arg.norm_check
    /\ bufs["hx_host"].dev = 1 /\ bufs["hx_host"].sc = "host"
    /\ bufs["hx_device"].dev = 1 /\ bufs["hx_device"].sc = "device"
    /\ bufs["hx_cpu"].ref = {0}

(***************************************************************************)
(* C21.  In dgmm_batched the copy of hC_gold onto itself has no effect on  *)
(* the verdict: every element of hC_gold the comparison reads, index       *)
(* i1 + i2 * ldc with i1 < M and i2 < N in every batch, is written by the  *)
(* reference computation before the comparison, and every compared element *)
(* of hC_1 is written by the copy back from the device.                    *)
(***************************************************************************)
\* The positions unit_check_general and norm_check_general read in a buffer
\* of batch_count matrices of M x N elements with leading dimension ldc.
dgmm_b_compared(a) ==
    { b * dgmm_b_batch_sizes(a).hC + i1 + i2 * a.ldc :
        b \in 0 .. (a.batch_count - 1),
        i1 \in 0 .. (a.M - 1), i2 \in 0 .. (a.N - 1) }

\* The statements of the reference computation have not started.
BeforeReference == \A i \in 1 .. (pc - 1) : prog[i].op # "ref"

C21_SelfCopyNoEffect ==
    routine = "dgmm_batched" =>
        /\ BeforeReference =>
              \A p \in DOMAIN bufs["hC_gold"] :
                  bufs["hC_gold"][p] = {<<"hC_gold", p>>}
        /\ status = "done" =>
              \A p \in dgmm_b_compared(arg) :
                  /\ Content(<<"hC_gold", p>>) \cap CellsOf("hC_gold",
                         DOMAIN bufs["hC_gold"]) = {}
                  /\ Content(<<"hC_1", p>>) = Content(<<"dC", p>>)
                  /\ <<"hC", p>> \notin Content(<<"hC_1", p>>)

\* Two batches of matrices of two columns whose leading dimensions lda and
\* ldc differ, compared after the self-copy, the copy back and the
\* reference computation.
C21_Witness ==
    /\ routine = "dgmm_batched"
    /\ status = "done"
    /\ arg.N = 2 /\ arg.batch_count = 2
    /\ arg.lda # arg.ldc
    /\ \E i \in 1 .. Len(prog) : prog[i].ln = 102 /\ trace[i]
    /\ \E i \in 1 .. Len(prog) : prog[i].ln = 124 /\ trace[i]
    /\ Cardinality(dgmm_b_compared(arg)) = 2 * arg.M * arg.N

(***************************************************************************)
(* C22, as stated.  In every routine, for all cold_iters >= 0 and          *)
(* iters >= 0, the elapsed time passed to the log record in timing mode is *)
(* the difference of two clock reads taken during that test case: the      *)
(* start value gpu_time_used is assigned by a clock read before it is      *)
(* subtracted from the end clock read.  With iters = 0 the loop never      *)
(* reaches iter == arg.cold_iters and the end clock read subtracts the     *)
(* variable as it was declared.                                            *)
(***************************************************************************)
Records == { i \in Executed : prog[i].op = "log" }

C22_AsStated ==
    \A i \in Records : trace[i].vals["gpu_time_used"].tag = "elapsed"

(***************************************************************************)
(* C23, as stated.  Whenever a log record is emitted, every numerical      *)
(* error value it reports (hipblas_error, hipblas_error_host,              *)
(* hipblas_error_device) has been assigned earlier in the same test case,  *)
(* for every combination of the unit_check, norm_check and timing          *)
(* switches.  The error variables are declared without an initialiser and  *)
(* assigned only under if(arg.norm_check).                                 *)
(***************************************************************************)
ErrorValues(i) == prog[i].src \ {"gpu_time_used"}

C23_AsStated ==
    \A i \in Records :
        \A n \in ErrorValues(i) : trace[i].vals[n].tag # "unset"

(***************************************************************************)
(* Vocabulary of the claims about the indices of the reference loops.      *)
(***************************************************************************)
\* The statements of the reference computation that control has reached.
ReferenceReached ==
    { i \in 1 .. Len(prog) : i <= pc /\ prog[i].op = "ref" }

\* The cells of buffer n that statement st reads.
ReadsOf(st, n) ==
    { c \in UNION { st.upd[w] : w \in DOMAIN st.upd } : c[1] = n }

(***************************************************************************)
(* C24, as stated.  In the reference computation of dgmm_batched, for      *)
(* every descriptor that passes the pre-check (any M, N >= 1, either side, *)
(* any non-zero incx including negative values), every index               *)
(* shift_x + i * incx used to read hx_copy[b] lies in                      *)
(* [0, 1 + (k - 1) * |incx|), where k = N for side = right and k = M for   *)
(* side = left is the length of x.  The loop computes shift_x from N also  *)
(* for side = left.                                                        *)
(***************************************************************************)
C24_AsStated ==
    routine = "dgmm_batched" =>
        \A i \in ReferenceReached :
            \A c \in ReadsOf(prog[i], "hx_copy") :
                LET index == c[2] - prog[i].b * dgmm_b_batch_sizes(arg).hx_copy
                IN  /\ 0 <= index
                    /\ index < 1 + (dgmm_b_k(arg) - 1) * abs(arg.incx)

(***************************************************************************)
(* C25, as stated.  In set_get_matrix_async, for every descriptor that     *)
(* passes the pre-check (rows >= 0, cols >= 0, lda, ldb, ldc > 0), every   *)
(* index i1 + i2 * ld used to read ha or write hb_ref in the reference     *)
(* copy (0 <= i1 < rows, 0 <= i2 < cols) is smaller than the allocated     *)
(* length cols * ld of that buffer.  The pre-check admits ld < rows.       *)
(***************************************************************************)
C25_AsStated ==
    routine = "set_get_matrix_async" =>
        \A i \in ReferenceReached :
            /\ \A c \in ReadsOf(prog[i], "ha") : c[2] < arg.cols * arg.lda
            /\ \A c \in DOMAIN prog[i].upd :
                  c[1] = "hb_ref" /\ c[2] < arg.cols * arg.ldb

====
